---- MODULE Spec2Model ----
(***************************************************************************)
(* A model of the UnrealScript language service's semantic core: the name  *)
(* table, the tree builder (DocumentASTWalker), the symbol model           *)
(* (UCSymbol, UCStructSymbol, UCClassSymbol, UCDocumentClassSymbol), the   *)
(* indexer and the DocumentAnalyzer.                                       *)
(*                                                                         *)
(* Identifier texts are sequences of character codes, so that lower-casing *)
(* and dot-joining are computed and not assumed: <<70,111,111>> is "Foo".  *)
(*                                                                         *)
(* The module holds several specifications over one list of variables:     *)
(*   SpecNames    the name table and the identifier constructors           *)
(*   SpecAnalyze  visitFunctionDecl/visitParamDecl/visitVariable followed  *)
(*                by DocumentAnalyzer.visitMethod/visitProperty            *)
(*   SpecBuild    the tree builder's walk of one document                  *)
(*   Spec         parsing and indexing of two documents whose classes      *)
(*                refer to each other                                      *)
(*   SpecLive     Spec with the fairness of a synchronous call             *)
(*   SpecLookup   Spec over classes with members, for the name lookups     *)
(*   SpecReparse  parsing, indexing, type lookups and re-parsing           *)
(*   SpecExpr     parsing and indexing of two classes with functions and   *)
(*                states; one expression statement is indexed and the      *)
(*                DocumentAnalyzer runs over the documents                 *)
(* Each specification leaves the variables of the others unchanged.        *)
(***************************************************************************)
EXTENDS Naturals, Integers, Sequences, FiniteSets, TLC

VARIABLES
    \* ---- name table (names.ts) ----
    namesTable,     \* hash -> Name object: the process-wide intern table
    nameCount,      \* number of Name objects created so far (object identity)
    idOf,           \* text -> the Name in the Identifier that idFromCtx/idFromToken last returned for it
    \* ---- one method / property under analysis ----
    phase,          \* "decl" | "built" | "analyzed"
    method,         \* the method symbol visitFunctionDecl built (or NoMethod)
    property,       \* the property symbol visitVariable built (or NoProperty)
    diagnostics,    \* DiagnosticCollection of the analyzer: sequence of [text, at]
    nodes,          \* document.nodes as the builder fills it: sequence of [text]
    \* ---- the symbol graph ----
    sym,            \* every symbol object ever constructed, by object identity 1..Len(sym)
    scopes,         \* DocumentASTWalker.scopes of the walker at work
    docClass,       \* document -> document.class (NoSymbol while undefined)
    objectsTable,   \* ObjectsTable: insertion-ordered map, lower-cased name -> struct/enum symbol
    declCount,      \* declarations the walker has visited so far
    callStack,      \* activation records of index() calls in progress, innermost last
    stale,          \* symbols of trees that a re-parse has discarded
    parseCount,     \* documents parsed so far, re-parses included
    escaped,        \* "none", or the kind of the construct in which an exception was raised that left the walk
    expr,           \* the expression statement followed through index() and analyze() (or NoExpr)
    analyzed,       \* the documents a DocumentAnalyzer has run over
    visits,         \* the walker's handlers between their push and their pop, innermost last:
                    \* [id: the construct, entry: the scope stack when the handler was entered]
    located         \* the last symbol-at-position query and its answer (or NoQuery)

varsNames   == <<namesTable, nameCount, idOf>>
varsAnalyze == <<phase, method, property, diagnostics, nodes>>
varsGraph   == <<sym, scopes, docClass, objectsTable, declCount, callStack, stale, located, parseCount, escaped,
                 expr, analyzed, visits>>
vars        == <<namesTable, nameCount, idOf, phase, method, property, diagnostics, nodes,
                 sym, scopes, docClass, objectsTable, declCount, callStack, stale, located, parseCount, escaped,
                 expr, analyzed, visits>>

\* JavaScript's undefined in a numeric field.
Undefined == 0 - 1

\* JavaScript truthiness of a number | undefined.
Truthy(n) == n # Undefined /\ n # 0

(***************************************************************************)
(* Texts.                                                                  *)
(***************************************************************************)
\* String.prototype.toLowerCase on one ASCII character code.
ToLowerChar(c) == IF c \in 65..90 THEN c + 32 ELSE c

\* String.prototype.toLowerCase.
ToLower(text) == [i \in 1..Len(text) |-> ToLowerChar(text[i])]

\* The identifier texts the parser hands to the builder in SpecNames:
\* "Foo" "foo" "FOO" "fOo" "Bar" "bar" "BAR" "x" "X".
Texts ==
    { <<70,111,111>>, <<102,111,111>>, <<70,79,79>>, <<102,79,111>>,
      <<66,97,114>>, <<98,97,114>>, <<66,65,82>>, <<120>>, <<88>> }

(***************************************************************************)
(* Name table.                                                             *)
(***************************************************************************)
RECURSIVE HashFrom(_, _, _)
HashFrom(text, i, h) ==
    IF i > Len(text) THEN h
    ELSE HashFrom(text, i + 1, (h * 31 + text[i]) % 65536)

\* toHash(text): the hash of the lower-cased text (folded to 16 bits here).
toHash(text) == HashFrom(ToLower(text), 1, 7)

\* toName(text): the interned Name for text and the table afterwards.  A
\* Name keeps the spelling it was first interned with.
toName(text, table, count) ==
    LET hash == toHash(text) IN
    IF hash \in DOMAIN table
    THEN [name |-> table[hash], table |-> table, count |-> count]
    ELSE LET name == [id |-> count + 1, hash |-> hash, text |-> text] IN
         [name |-> name, table |-> table @@ (hash :> name), count |-> count + 1]

\* Mutant of idFromCtx: the identifier's Name is constructed directly
\* from the text and is not interned.
idFromCtx_NoIntern(text, table, count) ==
    [name  |-> [id |-> count + 1, hash |-> toHash(text), text |-> text],
     table |-> table, count |-> count + 1]

\* idFromCtx(ctx) / idFromToken(token): { name: toName(ctx.text), range }.
\* The range plays no part in name identity and is left out.
idFromCtx(text, table, count) == toName(text, table, count)

\* One identifier is constructed from a parse-tree node with this text.
IdFromCtx(text) ==
    LET r == idFromCtx(text, namesTable, nameCount) IN
    /\ namesTable' = r.table
    /\ nameCount' = r.count
    /\ idOf' = [t \in DOMAIN idOf \cup {text} |-> IF t = text THEN r.name ELSE idOf[t]]
    /\ UNCHANGED varsAnalyze
    /\ UNCHANGED varsGraph


(***************************************************************************)
(* visitFunctionDecl, visitParamDecl, visitVariable: the symbols the       *)
(* analyzer's rules read.                                                  *)
(***************************************************************************)
\* Bounds of the declarations enumerated in SpecAnalyze.
MaxParams == 3

\* The specifier keywords a function declaration is drawn from.
SpecifierKeywords ==
    {"const", "function", "operator", "preoperator", "postoperator",
     "delegate", "event", "static", "final"}

ModifierKeywords == {"native", "const", "protected", "private"}
KindKeywords == {"function", "operator", "preoperator", "postoperator", "delegate", "event"}
MethodSpecifierKeywords == KindKeywords \cup {"static", "final"}

\* The text of specifier._operatorPrecedence as a number (Undefined: absent).
PrecedenceTexts == {Undefined, 0, 1, 16, 255, 256}

\* The array dimensions of a variable: a dimension that does not evaluate
\* to an integer (Undefined), or a size.
ArrayDims == {Undefined, 0, 1, 2, 5, 2048, 2049, 3000}
PropertyTypes == {"int", "bool", "array", "unresolved"}

NoMethod == [type |-> "none"]
NoProperty == [type |-> "none"]
IsMethod(m) == m.type # "none"
IsProperty(p) == p.type # "none"

\* Mutant of MethodTypeOf: the operator kinds are tested before function and event.
MethodTypeOf_OperatorFirst(specifiers) ==
    IF "operator" \in specifiers THEN "UCBinaryOperatorSymbol"
    ELSE IF "function" \in specifiers THEN "UCMethodSymbol"
    ELSE IF "event" \in specifiers THEN "UCEventSymbol"
    ELSE IF "preoperator" \in specifiers THEN "UCPreOperatorSymbol"
    ELSE IF "postoperator" \in specifiers THEN "UCPostOperatorSymbol"
    ELSE IF "delegate" \in specifiers THEN "UCDelegateSymbol"
    ELSE "UCMethodSymbol"

\* The symbol class visitFunctionDecl instantiates.
MethodTypeOf(specifiers) ==
    IF "function" \in specifiers THEN "UCMethodSymbol"
    ELSE IF "event" \in specifiers THEN "UCEventSymbol"
    ELSE IF "operator" \in specifiers THEN "UCBinaryOperatorSymbol"
    ELSE IF "preoperator" \in specifiers THEN "UCPreOperatorSymbol"
    ELSE IF "postoperator" \in specifiers THEN "UCPostOperatorSymbol"
    ELSE IF "delegate" \in specifiers THEN "UCDelegateSymbol"
    ELSE "UCMethodSymbol"

\* visitParamDecl: one parameter; paramModifiers keeps the Optional bit.
ParamSymbol(optional) == [optional |-> optional]

\* The parameter lists enumerated: up to MaxParams parameters.
ParamLists ==
    UNION {[1..n -> {ParamSymbol(TRUE), ParamSymbol(FALSE)}] : n \in 0..MaxParams}

\* visitFunctionDecl: the method symbol built from the specifier keywords,
\* the precedence text and the parameter list.  precedenceText keeps what
\* the operator specifier of the parse tree said (specifier._operatorPrecedence).
FunctionDecl(keywords, precedenceText, hasParams, params) ==
    LET specifiers == keywords \cap MethodSpecifierKeywords
        modifiers  == keywords \cap ModifierKeywords
        precedence == IF "operator" \in keywords /\ precedenceText # Undefined
                      THEN precedenceText ELSE Undefined
    IN [type       |-> MethodTypeOf(specifiers),
        specifiers |-> specifiers,
        modifiers  |-> modifiers,
        precedence |-> IF Truthy(precedence) THEN precedence ELSE Undefined,
        precedenceText |-> IF "operator" \in keywords THEN precedenceText ELSE Undefined,
        hasParams  |-> hasParams,
        params     |-> IF hasParams THEN params ELSE << >>,
        requiredParamsCount |-> Undefined]

\* The SyntaxErrorNode visitFunctionDecl pushes when no kind was specified.
FunctionDeclNodes(keywords) ==
    IF keywords \cap KindKeywords = {}
    THEN << [text |-> "Method must be declared as either one of the following"] >>
    ELSE << >>

visitFunctionDecl ==
    /\ phase = "decl"
    /\ phase' = "built"
    /\ \E keywords \in SUBSET SpecifierKeywords, precedenceText \in PrecedenceTexts,
          hasParams \in BOOLEAN, params \in ParamLists :
          /\ (hasParams \/ params = << >>)
          /\ method' = FunctionDecl(keywords, precedenceText, hasParams, params)
          /\ nodes' = nodes \o FunctionDeclNodes(keywords)
    /\ UNCHANGED <<property, diagnostics>>
    /\ UNCHANGED varsNames
    /\ UNCHANGED varsGraph

\* UCPropertySymbol.walk as called by visitVariable: a variable with an
\* array dimension gets the WithDimension modifier, an arrayDimRange and,
\* when the dimension evaluates, its size.
visitVariable ==
    /\ phase = "decl"
    /\ phase' = "built"
    /\ \E hasDim \in BOOLEAN, dim \in ArrayDims, type \in PropertyTypes :
          /\ (hasDim \/ dim = Undefined)
          /\ property' = [type          |-> "UCPropertySymbol",
                          fixedArray    |-> hasDim,
                          arrayDimRange |-> hasDim,
                          arrayDim      |-> IF hasDim THEN dim ELSE Undefined,
                          typeRef       |-> type]
    /\ UNCHANGED <<method, diagnostics, nodes>>
    /\ UNCHANGED varsNames
    /\ UNCHANGED varsGraph

(***************************************************************************)
(* DocumentAnalyzer.                                                       *)
(***************************************************************************)
\* config.checkTypes of the indexer.
CheckTypes == {TRUE, FALSE}

MaxArrayDim == 2048
MaxPrecedence == 255

isOptional(param) == param.optional
isFinal(m) == "final" \in m.specifiers
isFixedArray(p) == p.fixedArray
getArrayDimSize(p) == p.arrayDim

\* UCMethodSymbol.getKind(): SymbolKind.Operator for the operator symbols.
getKind(m) ==
    IF m.type \in {"UCBinaryOperatorSymbol", "UCPreOperatorSymbol", "UCPostOperatorSymbol"}
    THEN "Operator"
    ELSE IF m.type = "UCEventSymbol" THEN "Event"
    ELSE "Function"

Diag(text, kind, index) == [text |-> text, at |-> [kind |-> kind, index |-> index]]

MSG_OPTIONAL   == "Parameter must be marked 'optional' after an optional parameter."
MSG_FINAL      == "Operator must be declared as 'final'."
MSG_TWO_PARAMS == "An operator is required to have a total of 2 parameters."
MSG_NO_PREC    == "Operator must have a precedence."
MSG_PREC_RANGE == "Operator precedence must be between 0-255."
MSG_BAD_SIZE   == "Bad array size, try refer to a type that can be evaulated to an integer!"
MSG_SIZE_RANGE == "Illegal array size, must be between 2-2048"
MSG_ARRAY_TYPE == "Illegal array type"

\* The outer loop of visitMethod: the 0-based index of the first optional
\* parameter, or params.length.
RECURSIVE FirstOptional(_, _)
FirstOptional(params, i) ==
    IF i >= Len(params) THEN i
    ELSE IF isOptional(params[i + 1]) THEN i
    ELSE FirstOptional(params, i + 1)

\* Mutant of TrailingDiags: the inner loop stops at the first parameter it reports.
TrailingDiags_FirstOnly(params, i) ==
    LET required == {j \in (i + 1)..Len(params) : ~isOptional(params[j])} IN
    IF required = {} THEN << >>
    ELSE << Diag(MSG_OPTIONAL, "param", (CHOOSE j \in required : \A k \in required : j <= k) - 1) >>

\* The inner loop of visitMethod: one diagnostic for every parameter after
\* index `first` that is not optional, in parameter order.
RECURSIVE TrailingDiags(_, _)
TrailingDiags(params, i) ==
    IF i >= Len(params) THEN << >>
    ELSE (IF isOptional(params[i + 1]) THEN << >> ELSE << Diag(MSG_OPTIONAL, "param", i) >>)
         \o TrailingDiags(params, i + 1)

\* visitMethod, lines 192-214.
ParamDiags(m) ==
    IF ~m.hasParams THEN << >>
    ELSE LET first == FirstOptional(m.params, 0) IN
         IF first < Len(m.params) THEN TrailingDiags(m.params, first + 1) ELSE << >>

\* Mutant of RequiredParamsCount: every parameter that is not optional is counted.
RequiredParamsCount_CountAll(m) ==
    IF ~m.hasParams THEN m.requiredParamsCount
    ELSE Cardinality({i \in 1..Len(m.params) : ~isOptional(m.params[i])})

\* visitMethod, line 213: the value the outer loop's counter ends with.
RequiredParamsCount(m) ==
    IF ~m.hasParams THEN m.requiredParamsCount
    ELSE FirstOptional(m.params, 0)

\* Mutant of FinalDiags: the test of isFinal is inverted.
FinalDiags_Inverted(m) ==
    IF isFinal(m) THEN << Diag(MSG_FINAL, "method", 0) >> ELSE << >>

\* visitMethod, lines 217-225.
FinalDiags(m) ==
    IF ~isFinal(m) THEN << Diag(MSG_FINAL, "method", 0) >> ELSE << >>

\* visitMethod, lines 227-255.
BinaryOperatorDiags(m) ==
    IF m.type # "UCBinaryOperatorSymbol" THEN << >>
    ELSE (IF ~m.hasParams \/ Len(m.params) # 2
          THEN << Diag(MSG_TWO_PARAMS, "method", 0) >> ELSE << >>)
         \o
         (IF ~Truthy(m.precedence) THEN << Diag(MSG_NO_PREC, "method", 0) >>
          ELSE IF m.precedence < 0 \/ m.precedence > MaxPrecedence
               THEN << Diag(MSG_PREC_RANGE, "method", 0) >>
          ELSE << >>)

OperatorDiags(m) ==
    IF getKind(m) = "Operator" THEN FinalDiags(m) \o BinaryOperatorDiags(m) ELSE << >>

\* DocumentAnalyzer.visitMethod.
visitMethod ==
    /\ phase = "built"
    /\ IsMethod(method)
    /\ phase' = "analyzed"
    /\ diagnostics' = diagnostics \o ParamDiags(method) \o OperatorDiags(method)
    /\ method' = [method EXCEPT !.requiredParamsCount = RequiredParamsCount(method)]
    /\ UNCHANGED <<property, nodes>>
    /\ UNCHANGED varsNames
    /\ UNCHANGED varsGraph

\* visitProperty, lines 146-164: the diagnostics about the array size.
ArraySizeDiags(p) ==
    LET arraySize == getArrayDimSize(p) IN
    IF ~Truthy(arraySize) THEN << Diag(MSG_BAD_SIZE, "arrayDim", 0) >>
    ELSE IF arraySize > MaxArrayDim \/ arraySize <= 1
         THEN << Diag(MSG_SIZE_RANGE, "arrayDim", 0) >>
    ELSE << >>

\* visitProperty, lines 166-177: bool and the native array type are no
\* element types of a fixed array.
ArrayTypeDiags(p, checkTypes) ==
    IF checkTypes /\ p.typeRef \in {"bool", "array"}
    THEN << Diag(MSG_ARRAY_TYPE, "type", 0) >> ELSE << >>

\* DocumentAnalyzer.visitProperty.
visitProperty ==
    /\ phase = "built"
    /\ IsProperty(property)
    /\ phase' = "analyzed"
    /\ \E checkTypes \in CheckTypes :
          diagnostics' = diagnostics \o
             (IF isFixedArray(property) /\ property.arrayDimRange
              THEN ArraySizeDiags(property) \o ArrayTypeDiags(property, checkTypes)
              ELSE << >>)
    /\ UNCHANGED <<method, property, nodes>>
    /\ UNCHANGED varsNames
    /\ UNCHANGED varsGraph

NextAnalyze ==
    \/ visitFunctionDecl
    \/ visitVariable
    \/ visitMethod
    \/ visitProperty

\* Number of diagnostics with this text.
CountDiags(text) == Cardinality({i \in 1..Len(diagnostics) : diagnostics[i].text = text})

(***************************************************************************)
(* The symbol graph.  Every symbol object lives in sym under its object    *)
(* identity; a link (outer, next, children, super, a resolved reference)   *)
(* is the identity of its target, NoSymbol for undefined.                  *)
(***************************************************************************)
NoSymbol == 0
NoText == << >>
Dot == <<46>>
NAME_ENUMCOUNT == <<69, 110, 117, 109, 67, 111, 117, 110, 116>>
PackageName == <<67, 111, 114, 101>>
PackageId == 1

Docs == {"A", "B"}
ClassTexts == {<<65>>, <<66>>}
BlockKinds == {"defaultproperties", "structdefaultproperties", "replication", "object"}
StructKinds == {"class", "struct", "enum", "state", "method"} \cup BlockKinds

\* A JavaScript Map as the sequence of its entries in insertion order.
MapHas(m, k) == \E i \in 1..Len(m) : m[i].key = k
MapGet(m, k) ==
    IF MapHas(m, k) THEN m[CHOOSE i \in 1..Len(m) : m[i].key = k].value ELSE NoSymbol
MapSet(m, k, v) ==
    IF MapHas(m, k)
    THEN [i \in 1..Len(m) |-> IF m[i].key = k THEN [key |-> k, value |-> v] ELSE m[i]]
    ELSE Append(m, [key |-> k, value |-> v])

\* A source range, from the offset of its first token to that of its last.
Range(lo, hi) == [lo |-> lo, hi |-> hi]
NoRange == Range(0, 0)
NoQuery == [op |-> "none"]

\* A freshly constructed symbol: every optional field undefined.
UCSymbol(kind, name, doc) ==
    [kind |-> kind, name |-> name, doc |-> doc,
     outer |-> NoSymbol, next |-> NoSymbol, children |-> NoSymbol, super |-> NoSymbol,
     extendsType |-> NoText, extendsRef |-> NoSymbol,
     withinType |-> NoText, withinRef |-> NoSymbol,
     dependsOnTypes |-> << >>,
     types |-> << >>, cachedTypeResolves |-> << >>,
     document |-> FALSE, value |-> Undefined, indexCount |-> 0, indexedAt |-> 0,
     specifiers |-> {}, modifiers |-> {}, precedence |-> Undefined,
     hasParams |-> FALSE, params |-> << >>, requiredParamsCount |-> Undefined,
     fixedArray |-> FALSE, typeName |-> NoText, tabled |-> FALSE,
     indexLog |-> << >>, range |-> NoRange]

getName(h, id) == h[id].name

\* Mutant of addSymbol: the new child is not linked to the older children.
addSymbol_Unlinked(h, scope, id) ==
    LET linked == [h EXCEPT ![id].outer = scope,
                            ![scope].children = id]
    IN  IF h[id].kind \in {"struct", "enum"}
        THEN [linked EXCEPT ![scope].types = MapSet(@, ToLower(getName(h, id)), id)]
        ELSE linked

\* UCStructSymbol.addSymbol
addSymbol(h, scope, id) ==
    LET linked == [h EXCEPT ![id].outer = scope,
                            ![id].next = h[scope].children,
                            ![scope].children = id]
    IN  IF h[id].kind \in {"struct", "enum"}
        THEN [linked EXCEPT ![scope].types = MapSet(@, ToLower(getName(h, id)), id)]
        ELSE linked

\* UCPackage.addSymbol: the package becomes the owner of the class.
PackageAddSymbol(h, pkg, id) == [h EXCEPT ![id].outer = pkg]

\* DocumentASTWalker.declare: scope().addSymbol(symbol)
declare(h, scope, id) ==
    IF h[scope].kind = "package" THEN PackageAddSymbol(h, scope, id) ELSE addSymbol(h, scope, id)

\* Mutant of NextCount: the count is never incremented.
NextCount_Stuck(count) == count

\* count++ of the enum member loop
NextCount(count) == count + 1

\* visitEnumDecl's loop over the member nodes, from member i on: visitEnumMember
\* constructs and declares the member into the pushed enum and enters it in
\* the indexer's enum-member table (tabled), then the loop overwrites outer
\* and stores the running count.
RECURSIVE EnumMemberLoop(_, _, _, _, _, _)
EnumMemberLoop(h, enum, doc, members, i, count) ==
    IF i > Len(members) THEN [h |-> h, count |-> count]
    ELSE LET member == Len(h) + 1
             declared == declare(Append(h, UCSymbol("enummember", members[i], doc)), enum, member)
         IN  EnumMemberLoop([declared EXCEPT ![member].outer = enum, ![member].value = count,
                                             ![member].tabled = TRUE],
                            enum, doc, members, i + 1, NextCount(count))

\* visitEnumDecl without the ObjectsTable registration: the heap it leaves.
EnumDecl(h, scope, doc, name, members) ==
    LET enum == Len(h) + 1
        declared == declare(Append(h, UCSymbol("enum", name, doc)), scope, enum)
        looped == EnumMemberLoop(declared, enum, doc, members, 1, 0)
        enumCountMember == Len(looped.h) + 1
        withCount == declare(Append(looped.h, UCSymbol("enummember", NAME_ENUMCOUNT, doc)),
                             enum, enumCountMember)
    IN  [withCount EXCEPT ![enumCountMember].outer = enum,
                          ![enumCountMember].value = looped.count]

\* ObjectsTable.addSymbol: last writer for a key wins.
ObjectsTableAdd(table, h, id) == MapSet(table, ToLower(getName(h, id)), id)

\* The class declaration opens the document: "class" at offset 0, the name
\* at 1, the clauses of the header up to the semicolon at 2.
ClassRange == Range(0, 2)
ClassIdRange == Range(1, 1)

\* The header of a class declaration: the texts of its extends and within
\* clauses (NoText when absent) and of its dependson/implements arguments.
ClassDecl(h, scope, doc, name, header, assignDocument) ==
    LET class == Len(h) + 1
        symbol == [UCSymbol("class", name, doc) EXCEPT
                      !.range = ClassRange,
                      !.document = assignDocument,
                      !.extendsType = header.extendsType,
                      !.withinType = header.withinType,
                      !.dependsOnTypes = header.dependsOnTypes]
    IN  declare(Append(h, symbol), scope, class)

\* The names of the blocks: NAME_DEFAULT, NAME_REPLICATION, NAME_OBJECT.
BlockName(kind) ==
    IF kind \in {"defaultproperties", "structdefaultproperties"}
    THEN <<68, 101, 102, 97, 117, 108, 116>>
    ELSE IF kind = "replication" THEN <<82, 101, 112, 108, 105, 99, 97, 116, 105, 111, 110>>
    ELSE <<79, 98, 106, 101, 99, 116>>

\* Mutant of BlockDecl: the super of the block is left as constructed.
BlockDecl_NoSuper(h, scope, doc, kind, super) ==
    declare(Append(h, UCSymbol(kind, BlockName(kind), doc)), scope, Len(h) + 1)

\* visitReplicationBlock, visitDefaultPropertiesBlock,
\* visitStructDefaultPropertiesBlock and visitObjectDecl up to the push: the
\* block is constructed, its super is assigned, and it is declared.
BlockDecl(h, scope, doc, kind, super) ==
    declare(Append(h, [UCSymbol(kind, BlockName(kind), doc) EXCEPT !.super = super]),
            scope, Len(h) + 1)

\* A struct, state or method declaration up to its push: construct, declare.
MemberDecl(h, scope, doc, kind, name) ==
    declare(Append(h, UCSymbol(kind, name, doc)), scope, Len(h) + 1)

\* Mutant of QualifyFrom: the walk stops below the package.
RECURSIVE QualifyFrom_StopAtPackage(_, _, _)
QualifyFrom_StopAtPackage(h, outer, text) ==
    IF outer = NoSymbol \/ h[outer].kind = "package" THEN text
    ELSE QualifyFrom_StopAtPackage(h, h[outer].outer, h[outer].name \o Dot \o text)

\* UCSymbol.getQualifiedName: the own name prefixed with the name of every
\* outer, innermost first.
RECURSIVE QualifyFrom(_, _, _)
QualifyFrom(h, outer, text) ==
    IF outer = NoSymbol THEN text
    ELSE QualifyFrom(h, h[outer].outer, h[outer].name \o Dot \o text)

getQualifiedName(h, id) == QualifyFrom(h, h[id].outer, h[id].name)

(***************************************************************************)
(* The tree builder's walk of one document.  A handler that visits member  *)
(* nodes between its push and its pop is two steps: the part up to the     *)
(* push, and leaveDecl for the pop of its finally block; the members are   *)
(* the steps taken in between.                                             *)
(***************************************************************************)
MaxDecls == 4
MaxEnumMembers == 2

WalkDoc == "A"
MSG_CLASS_IN_CLASS == "Cannot declare a class within another class!"

NoHeader == [extendsType |-> NoText, withinType |-> NoText, dependsOnTypes |-> << >>]
StructTexts == {<<83>>, <<115>>}
StateTexts == {<<83>>}
FunctionTexts == {<<70>>}
VarTexts == {<<120>>, <<83>>}
EnumTexts == {<<69>>}
ConstTexts == {<<67>>}
LocalTexts == {<<120>>}
EnumMemberTexts == {<<120>>, <<121>>}
RECURSIVE SeqsUpTo(_, _)
SeqsUpTo(S, n) ==
    IF n = 0 THEN {<< >>}
    ELSE LET shorter == SeqsUpTo(S, n - 1)
         IN  shorter \cup {Append(q, x) : q \in shorter, x \in S}
EnumMemberLists == SeqsUpTo(EnumMemberTexts, MaxEnumMembers)

scope == scopes[Len(scopes)]
\* A handler that has pushed its construct and not yet popped it.
Visit(id, entry) == [id |-> id, entry |-> entry]
\* The constructs whose handlers push them for the visit of their members.
PushedKinds == {"struct", "state", "method", "defaultproperties", "structdefaultproperties", "object"}
UnchangedByWalker ==
    /\ UNCHANGED varsNames
    /\ UNCHANGED <<phase, method, property, diagnostics>>
    /\ UNCHANGED <<callStack, stale, located, parseCount, expr, analyzed>>

\* Mutant of ClassDeclared: the test of document.class never holds.
ClassDeclared_Never(classes, doc) == FALSE

\* if (this.document.class)
ClassDeclared(classes, doc) == classes[doc] # NoSymbol

\* What visitClassDecl returns: undefined for a class after the first, else
\* the symbol it constructs.
visitClassDeclResult(h, classes, doc) ==
    IF ClassDeclared(classes, doc) THEN NoSymbol ELSE Len(h) + 1

visitClassDecl ==
    /\ escaped = "none"
    /\ declCount < MaxDecls
    /\ declCount' = declCount + 1
    /\ \E name \in ClassTexts :
         IF ClassDeclared(docClass, WalkDoc)
         THEN /\ nodes' = Append(nodes, [text |-> MSG_CLASS_IN_CLASS])
              /\ UNCHANGED <<sym, scopes, docClass>>
         ELSE /\ sym' = ClassDecl(sym, scope, WalkDoc, name, NoHeader, TRUE)
              /\ docClass' = [docClass EXCEPT ![WalkDoc] = Len(sym) + 1]
              /\ scopes' = Append(scopes, Len(sym) + 1)
              /\ UNCHANGED nodes
    /\ UNCHANGED <<objectsTable, visits>>
    /\ UNCHANGED escaped
    /\ UnchangedByWalker

visitEnumDecl ==
    /\ escaped = "none"
    /\ declCount < MaxDecls
    /\ sym[scope].kind \in {"class", "struct"}
    /\ declCount' = declCount + 1
    /\ \E name \in EnumTexts, members \in EnumMemberLists :
         /\ sym' = EnumDecl(sym, scope, WalkDoc, name, members)
         /\ objectsTable' = ObjectsTableAdd(objectsTable, sym', Len(sym) + 1)
    /\ UNCHANGED <<scopes, docClass, nodes, visits>>
    /\ UNCHANGED escaped
    /\ UnchangedByWalker

visitStructDecl ==
    /\ escaped = "none"
    /\ declCount < MaxDecls
    /\ sym[scope].kind \in {"class", "struct"}
    /\ declCount' = declCount + 1
    /\ \E name \in StructTexts :
         /\ sym' = MemberDecl(sym, scope, WalkDoc, "struct", name)
         /\ objectsTable' = ObjectsTableAdd(objectsTable, sym', Len(sym) + 1)
    /\ scopes' = Append(scopes, Len(sym) + 1)
    /\ visits' = Append(visits, Visit(Len(sym) + 1, scopes))
    /\ UNCHANGED <<docClass, nodes>>
    /\ UNCHANGED escaped
    /\ UnchangedByWalker

visitStateDecl ==
    /\ escaped = "none"
    /\ declCount < MaxDecls
    /\ sym[scope].kind = "class"
    /\ declCount' = declCount + 1
    /\ \E name \in StateTexts : sym' = MemberDecl(sym, scope, WalkDoc, "state", name)
    /\ scopes' = Append(scopes, Len(sym) + 1)
    /\ visits' = Append(visits, Visit(Len(sym) + 1, scopes))
    /\ UNCHANGED <<docClass, nodes, objectsTable>>
    /\ UNCHANGED escaped
    /\ UnchangedByWalker

visitFunctionDeclInScope ==
    /\ escaped = "none"
    /\ declCount < MaxDecls
    /\ sym[scope].kind \in {"class", "state"}
    /\ declCount' = declCount + 1
    /\ \E name \in FunctionTexts : sym' = MemberDecl(sym, scope, WalkDoc, "method", name)
    /\ scopes' = Append(scopes, Len(sym) + 1)
    /\ visits' = Append(visits, Visit(Len(sym) + 1, scopes))
    /\ UNCHANGED <<docClass, nodes, objectsTable>>
    /\ UNCHANGED escaped
    /\ UnchangedByWalker

visitVarDecl ==
    /\ escaped = "none"
    /\ declCount < MaxDecls
    /\ sym[scope].kind \in {"class", "struct"}
    /\ declCount' = declCount + 1
    /\ \E name \in VarTexts : sym' = MemberDecl(sym, scope, WalkDoc, "property", name)
    /\ UNCHANGED <<scopes, docClass, nodes, objectsTable, visits>>
    /\ UNCHANGED escaped
    /\ UnchangedByWalker

\* visitLocalDecl: a local variable of the function in scope.
visitLocalDecl ==
    /\ escaped = "none"
    /\ declCount < MaxDecls
    /\ sym[scope].kind = "method"
    /\ declCount' = declCount + 1
    /\ \E name \in LocalTexts : sym' = MemberDecl(sym, scope, WalkDoc, "local", name)
    /\ UNCHANGED <<scopes, docClass, nodes, objectsTable, visits>>
    /\ UNCHANGED escaped
    /\ UnchangedByWalker

\* visitDefaultPropertiesBlock in a class, visitStructDefaultPropertiesBlock
\* in a struct, up to the push.
visitDefaultPropertiesBlock ==
    /\ escaped = "none"
    /\ declCount < MaxDecls
    /\ sym[scope].kind \in {"class", "struct"}
    /\ declCount' = declCount + 1
    /\ sym' = BlockDecl(sym, scope, WalkDoc,
                        IF sym[scope].kind = "class" THEN "defaultproperties"
                        ELSE "structdefaultproperties",
                        scope)
    /\ scopes' = Append(scopes, Len(sym) + 1)
    /\ visits' = Append(visits, Visit(Len(sym) + 1, scopes))
    /\ UNCHANGED <<docClass, nodes, objectsTable>>
    /\ UNCHANGED escaped
    /\ UnchangedByWalker

\* visitObjectDecl, a statement of a default-value block, up to the push.
visitObjectDecl ==
    /\ escaped = "none"
    /\ declCount < MaxDecls
    /\ sym[scope].kind \in {"defaultproperties", "structdefaultproperties", "object"}
    /\ declCount' = declCount + 1
    /\ sym' = BlockDecl(sym, scope, WalkDoc, "object", scope)
    /\ scopes' = Append(scopes, Len(sym) + 1)
    /\ visits' = Append(visits, Visit(Len(sym) + 1, scopes))
    /\ UNCHANGED <<docClass, nodes, objectsTable>>
    /\ UNCHANGED escaped
    /\ UnchangedByWalker

\* visitReplicationBlock: the block is declared and not pushed.
visitReplicationBlock ==
    /\ escaped = "none"
    /\ declCount < MaxDecls
    /\ sym[scope].kind = "class"
    /\ declCount' = declCount + 1
    /\ sym' = BlockDecl(sym, scope, WalkDoc, "replication", docClass[WalkDoc])
    /\ UNCHANGED <<scopes, docClass, nodes, objectsTable, visits>>
    /\ UNCHANGED escaped
    /\ UnchangedByWalker

\* Mutant of ConstOwner: the const goes where every other declaration goes.
ConstOwner_Scope(classes, doc, stack) == stack[Len(stack)]

\* visitConstDecl, line 439: the struct the const is added to.
ConstOwner(classes, doc, stack) == classes[doc]

\* visitConstDecl: in a class, a struct or a function body.
visitConstDecl ==
    /\ escaped = "none"
    /\ declCount < MaxDecls
    /\ sym[scope].kind \in {"class", "struct", "method"}
    /\ declCount' = declCount + 1
    /\ \E name \in ConstTexts :
         sym' = addSymbol(Append(sym, UCSymbol("const", name, WalkDoc)),
                          ConstOwner(docClass, WalkDoc, scopes), Len(sym) + 1)
    /\ UNCHANGED <<scopes, docClass, nodes, objectsTable, visits>>
    /\ UNCHANGED escaped
    /\ UnchangedByWalker

leaveDecl ==
    /\ escaped = "none"
    /\ sym[scope].kind \in PushedKinds
    /\ scopes' = SubSeq(scopes, 1, Len(scopes) - 1)
    /\ visits' = SubSeq(visits, 1, Len(visits) - 1)
    /\ UNCHANGED <<sym, docClass, nodes, objectsTable, declCount>>
    /\ UNCHANGED escaped
    /\ UnchangedByWalker

\* Whether the handler of a construct of this kind has a catch clause around
\* its members: visitFunctionDecl has, visitStateDecl and visitStructDecl
\* have a finally only, and blockFromStatementCtx rethrows.  The finally of
\* visitDefaultPropertiesBlock returns, which discards the exception; those
\* of visitStructDefaultPropertiesBlock and visitObjectDecl do not.
Catches(kind) == kind \in {"method", "defaultproperties"}

\* Mutant of Unwind: the handlers are left without their finally blocks.
Unwind_KeepsScopes(h, stack) ==
    [scopes |-> stack, caught |-> Catches(h[stack[Len(stack)]].kind)]

\* An exception on its way out of the handlers whose scopes are on the
\* stack: every finally pops its scope; the first catch ends the unwinding.
\* The class is pushed by visitClassDecl, which has returned: no handler
\* pops it and none is left to catch.
RECURSIVE Unwind(_, _)
Unwind(h, stack) ==
    LET kind == h[stack[Len(stack)]].kind
        popped == SubSeq(stack, 1, Len(stack) - 1)
    IN  IF kind \in {"class", "package"} THEN [scopes |-> stack, caught |-> FALSE]
        ELSE IF Catches(kind) THEN [scopes |-> popped, caught |-> TRUE]
        ELSE Unwind(h, popped)

\* The handlers the exception ends: those of the constructs on the stack
\* down to the first that catches.
RECURSIVE HandlersLeft(_, _)
HandlersLeft(h, stack) ==
    LET kind == h[stack[Len(stack)]].kind
    IN  IF kind \in {"class", "package"} THEN 0
        ELSE IF Catches(kind) THEN 1
        ELSE 1 + HandlersLeft(h, SubSeq(stack, 1, Len(stack) - 1))

\* An exception is raised while the walker builds a parameter, a member or a
\* statement of the construct on top of the scope stack.
raiseInMember ==
    /\ escaped = "none"
    /\ sym[scope].kind \in PushedKinds
    /\ scopes' = Unwind(sym, scopes).scopes
    /\ visits' = SubSeq(visits, 1, Len(visits) - HandlersLeft(sym, scopes))
    /\ escaped' = IF Unwind(sym, scopes).caught THEN "none" ELSE sym[scope].kind
    /\ UNCHANGED <<sym, docClass, nodes, objectsTable, declCount>>
    /\ UnchangedByWalker

NextBuild ==
    \/ visitClassDecl
    \/ visitEnumDecl
    \/ visitStructDecl
    \/ visitStateDecl
    \/ visitFunctionDeclInScope
    \/ visitVarDecl
    \/ visitLocalDecl
    \/ visitDefaultPropertiesBlock
    \/ visitObjectDecl
    \/ visitReplicationBlock
    \/ visitConstDecl
    \/ leaveDecl
    \/ raiseInMember

(***************************************************************************)
(* Lookups of UCStructSymbol.  A lookup that would follow links forever    *)
(* (a cyclic super chain) is cut after more hops than there are symbols    *)
(* and answers Diverges.                                                   *)
(***************************************************************************)
Diverges == 0 - 2
LookupFuel(h) == Len(h) + 1

\* UCStructSymbol.findSymbol from this child of the list on; the members of
\* an enum child are matched too.
RECURSIVE findSymbolFrom(_, _, _)
findSymbolFrom(h, child, id) ==
    IF child = NoSymbol THEN NoSymbol
    ELSE IF ToLower(getName(h, child)) = id THEN child
    ELSE LET inner == IF h[child].kind = "enum"
                      THEN findSymbolFrom(h, h[child].children, id)
                      ELSE NoSymbol
         IN  IF inner # NoSymbol THEN inner ELSE findSymbolFrom(h, h[child].next, id)

findSymbol(h, s, id) == findSymbolFrom(h, h[s].children, id)

\* Mutant of findSuperSymbol: no walk up the super and outer links.
findSuperSymbol_OwnOnly(h, s, id, fuel) ==
    IF id = ToLower(getName(h, s)) THEN s ELSE findSymbol(h, s, id)

RECURSIVE findSuperSymbol(_, _, _, _)
findSuperSymbol(h, s, id, fuel) ==
    IF fuel = 0 THEN Diverges
    ELSE IF id = ToLower(getName(h, s)) THEN s
    ELSE IF findSymbol(h, s, id) # NoSymbol THEN findSymbol(h, s, id)
    ELSE LET viaSuper == IF h[s].super # NoSymbol /\ h[s].kind # "method"
                         THEN findSuperSymbol(h, h[s].super, id, fuel - 1)
                         ELSE NoSymbol
         IN  IF viaSuper # NoSymbol THEN viaSuper
             ELSE IF /\ h[s].kind \in {"method", "state"}
                     /\ h[s].outer # NoSymbol
                     /\ h[h[s].outer].kind \in StructKinds
                  THEN findSuperSymbol(h, h[s].outer, id, fuel - 1)
                  ELSE NoSymbol

\* UCStructSymbol.findTypeSymbol: the symbol it returns and the heap it
\* leaves (a found symbol is written to the cache of every struct on the way).
RECURSIVE findTypeSymbol(_, _, _, _, _)
findTypeSymbol(h, s, qualifiedId, deepSearch, fuel) ==
    IF fuel = 0 THEN [symbol |-> Diverges, h |-> h]
    ELSE IF MapGet(h[s].cachedTypeResolves, qualifiedId) # NoSymbol
    THEN [symbol |-> MapGet(h[s].cachedTypeResolves, qualifiedId), h |-> h]
    ELSE IF qualifiedId = ToLower(getName(h, s)) THEN [symbol |-> s, h |-> h]
    ELSE IF MapGet(h[s].types, qualifiedId) # NoSymbol
    THEN [symbol |-> MapGet(h[s].types, qualifiedId), h |-> h]
    ELSE LET up == IF ~deepSearch THEN NoSymbol
                   ELSE IF h[s].super # NoSymbol THEN h[s].super
                   ELSE IF h[s].outer # NoSymbol /\ h[h[s].outer].kind \in StructKinds
                   THEN h[s].outer
                   ELSE NoSymbol
             found == IF up = NoSymbol THEN [symbol |-> NoSymbol, h |-> h]
                      ELSE findTypeSymbol(h, up, qualifiedId, deepSearch, fuel - 1)
         IN  IF found.symbol \notin {NoSymbol, Diverges}
             THEN [symbol |-> found.symbol,
                   h |-> [found.h EXCEPT ![s].cachedTypeResolves = MapSet(@, qualifiedId, found.symbol)]]
             ELSE found

\* The children of a struct from child c on, in list order; every symbol
\* accepts the completion (UCSymbol.acceptCompletion).
RECURSIVE CompletionChildren(_, _)
CompletionChildren(h, c) ==
    IF c = NoSymbol THEN << >> ELSE << c >> \o CompletionChildren(h, h[c].next)

\* parent.super || parent.outer
CompletionParent(h, s) == IF h[s].super # NoSymbol THEN h[s].super ELSE h[s].outer

\* UCStructSymbol.getCompletionSymbols: the loop over the parents, at parent.
RECURSIVE CompletionLoop(_, _, _, _)
CompletionLoop(h, parent, symbols, fuel) ==
    IF parent = NoSymbol THEN [returns |-> TRUE, symbols |-> symbols]
    ELSE IF fuel = 0 THEN [returns |-> FALSE, symbols |-> symbols]
    ELSE CompletionLoop(h, CompletionParent(h, parent),
                        symbols \o CompletionChildren(h, h[parent].children), fuel - 1)

getCompletionSymbols(h, s, fuel) ==
    CompletionLoop(h, CompletionParent(h, s), CompletionChildren(h, h[s].children), fuel)

(***************************************************************************)
(* Documents: parsing builds the class and its members with the walker's   *)
(* operators; index() runs as a stack of activation records so that a call *)
(* made while another is in progress, and a call chain that never returns, *)
(* are both visible.                                                       *)
(***************************************************************************)
MaxDepends == 1
MaxMembers == 1
MaxCallDepth == 4
MaxParses == 3

ClassNameOf(d) == IF d = "A" THEN <<65>> ELSE <<66>>

\* Member declarations of a class body.  members: the member names of an
\* enum; body: the parameters of a function, the functions of a state;
\* keywords: the modifier and specifier keywords; typeName: the declared type.
MemberNode(kind, name) ==
    [kind |-> kind, name |-> name, members |-> << >>, body |-> << >>,
     keywords |-> {}, precedenceText |-> Undefined, fixedArray |-> FALSE, typeName |-> NoText,
     range |-> NoRange]
\* var int <name>; enum <name> {<members>}; struct <name> {}.
VarMember(name) == MemberNode("property", name)
EnumMember(name, members) == [MemberNode("enum", name) EXCEPT !.members = members]
StructMember(name) == MemberNode("struct", name)
\* var <keywords> <typeName> <name>; or, with fixedArray, <name>[<size>];
TypedVarMember(name, keywords, fixedArray, typeName) ==
    [MemberNode("property", name) EXCEPT
        !.keywords = keywords, !.fixedArray = fixedArray, !.typeName = typeName]
\* <keywords> int <name>
ParamNode(name, keywords) == [MemberNode("param", name) EXCEPT !.keywords = keywords]
\* <keywords>(<precedenceText>) <name>(<params>);
FunctionMember(name, keywords, precedenceText, params) ==
    [MemberNode("method", name) EXCEPT
        !.keywords = keywords, !.precedenceText = precedenceText, !.body = params]
\* state <name> { <functions> }
StateMember(name, functions) == [MemberNode("state", name) EXCEPT !.body = functions]
\* defaultproperties { }
DefaultsMember == MemberNode("defaultproperties", BlockName("defaultproperties"))

\* The symbol a member node is constructed as, before it is declared:
\* visitFunctionDecl's specifiers, modifiers and precedence for a function,
\* the modifiers, dimension and type of a variable or parameter.
MemberSymbol(doc, member) ==
    LET built == FunctionDecl(member.keywords, member.precedenceText,
                              member.body # << >>, << >>)
    IN  IF member.kind = "method"
        THEN [UCSymbol("method", member.name, doc) EXCEPT
                 !.specifiers = built.specifiers,
                 !.modifiers = built.modifiers,
                 !.precedence = built.precedence,
                 !.hasParams = built.hasParams,
                 !.range = member.range]
        ELSE [UCSymbol(member.kind, member.name, doc) EXCEPT
                 !.range = member.range,
                 !.modifiers = member.keywords,
                 !.fixedArray = member.fixedArray,
                 !.typeName = member.typeName]

\* The walker's visit of the member nodes of a body, from member i on: each
\* is constructed and declared into the scope; a function or state is the
\* scope of its own body, and a function keeps its parameters in params.
RECURSIVE WalkMembers(_, _, _, _, _, _)
WalkMembers(h, table, class, doc, members, i) ==
    IF i > Len(members) THEN [h |-> h, table |-> table]
    ELSE LET id == Len(h) + 1
             member == members[i]
             declared == IF member.kind = "enum"
                         THEN EnumDecl(h, class, doc, member.name, member.members)
                         ELSE IF member.kind = "defaultproperties"
                         THEN BlockDecl(h, class, doc, member.kind, class)
                         ELSE declare(Append(h, MemberSymbol(doc, member)), class, id)
             registered == IF member.kind \in {"enum", "struct"}
                           THEN ObjectsTableAdd(table, declared, id)
                           ELSE table
             inner == IF member.body = << >> THEN [h |-> declared, table |-> registered]
                      ELSE WalkMembers(declared, registered, id, doc, member.body, 1)
             walked == IF member.kind = "method" /\ member.body # << >>
                       THEN [inner.h EXCEPT ![id].params = [k \in 1..Len(member.body) |-> id + k]]
                       ELSE inner.h
         IN  WalkMembers(walked, inner.table, class, doc, members, i + 1)

\* A parse tree: the class header, the member nodes, and whether the class
\* symbol comes from visitClassDecl, which assigns its document field, or is
\* left as its constructor made it, with the field undefined.
ParseTree(header, members, assignDocument) ==
    [header |-> header, members |-> members, assignDocument |-> assignDocument]

\* Parsing document d: the symbols of its previous tree, if any, are
\* discarded, and document.class is the class of the new tree.
ParseDocument(d, trees) ==
    /\ callStack = << >>
    /\ parseCount < MaxParses
    /\ parseCount' = parseCount + 1
    /\ stale' = stale \cup {s \in 1..Len(sym) : sym[s].doc = d}
    /\ \E tree \in trees :
         LET class == Len(sym) + 1
             walked == WalkMembers(ClassDecl(sym, PackageId, d, ClassNameOf(d), tree.header,
                                             tree.assignDocument),
                                   objectsTable, class, d, tree.members, 1)
         IN  /\ sym' = walked.h
             /\ objectsTable' = walked.table
             /\ docClass' = [docClass EXCEPT ![d] = class]
    /\ UNCHANGED <<scopes, declCount, callStack, escaped, expr, analyzed, visits, located>>
    /\ UNCHANGED varsNames
    /\ UNCHANGED varsAnalyze

\* ClassesTable lookup of a class type reference: the class of a parsed
\* document whose name equals the text without regard to case.
FindClass(h, classes, text) ==
    LET matches == {d \in Docs : /\ classes[d] # NoSymbol
                                 /\ ToLower(getName(h, classes[d])) = ToLower(text)}
    IN  IF matches = {} THEN NoSymbol ELSE classes[CHOOSE d \in matches : TRUE]

Frame(id) == [id |-> id, pc |-> "start", i |-> 1, target |-> NoSymbol]
top == callStack[Len(callStack)]
Return == SubSeq(callStack, 1, Len(callStack) - 1)
Continue(pc) == [callStack EXCEPT ![Len(callStack)].pc = pc]
\* The caller resumes at pc once the index() call on the target returns.
Call(pc, target) ==
    Append([callStack EXCEPT ![Len(callStack)].pc = pc, ![Len(callStack)].target = target],
           Frame(target))

UnchangedByIndex ==
    /\ UNCHANGED <<scopes, docClass, objectsTable, declCount, stale, located, parseCount, escaped,
                   expr, analyzed, visits>>
    /\ UNCHANGED varsNames
    /\ UNCHANGED varsAnalyze

\* Mutant of AlreadyIndexed: the guard never holds.
AlreadyIndexed_Never(h, id) == FALSE

\* The guard of UCDocumentClassSymbol.index
AlreadyIndexed(h, id) == h[id].document

\* document.class.index(document): the call the document makes on its class.
IndexDocument(d) ==
    /\ callStack = << >>
    /\ docClass[d] # NoSymbol
    /\ callStack' = <<Frame(docClass[d])>>
    /\ UNCHANGED sym
    /\ UnchangedByIndex

\* UCDocumentClassSymbol.index
IndexGuard ==
    /\ callStack # << >>
    /\ top.pc = "start"
    /\ IF AlreadyIndexed(sym, top.id)
       THEN /\ callStack' = Return
            /\ UNCHANGED sym
       ELSE /\ sym' = [sym EXCEPT ![top.id].document = TRUE,
                                  ![top.id].indexCount = IF @ < 2 THEN @ + 1 ELSE @,
                                  ![top.id].indexedAt = Len(sym)]
            /\ callStack' = Continue("within")
    /\ UnchangedByIndex

\* UCClassSymbol.index: the within clause
IndexWithin ==
    /\ callStack # << >>
    /\ top.pc \in {"within", "withinSet"}
    /\ IF top.pc = "withinSet"
       THEN /\ sym' = [sym EXCEPT ![top.id].withinRef = top.target, ![top.id].super = top.target]
            /\ callStack' = Continue("depends")
       ELSE IF sym[top.id].withinType = NoText
       THEN /\ callStack' = Continue("depends")
            /\ UNCHANGED sym
       ELSE IF FindClass(sym, docClass, sym[top.id].withinType) = NoSymbol
       THEN /\ sym' = [sym EXCEPT ![top.id].super = NoSymbol]
            /\ callStack' = Continue("depends")
       ELSE /\ Len(callStack) < MaxCallDepth
            /\ callStack' = Call("withinSet", FindClass(sym, docClass, sym[top.id].withinType))
            /\ UNCHANGED sym
    /\ UnchangedByIndex

\* UCClassSymbol.index: the dependson and implements lists
IndexDependsOn ==
    /\ callStack # << >>
    /\ top.pc = "depends"
    /\ IF top.i > Len(sym[top.id].dependsOnTypes)
       THEN callStack' = Continue("extends")
       ELSE LET target == FindClass(sym, docClass, sym[top.id].dependsOnTypes[top.i])
                next == [callStack EXCEPT ![Len(callStack)].i = top.i + 1]
            IN  IF target = NoSymbol
                THEN callStack' = next
                ELSE /\ Len(callStack) < MaxCallDepth
                     /\ callStack' = Append(next, Frame(target))
    /\ UNCHANGED sym
    /\ UnchangedByIndex

\* An index() call a struct has made, or the statement of its index() it has
\* reached: step is "extends", "type", "child" or "block".
IndexEvent(step, id) == [step |-> step, id |-> id]

\* for (let type of this.types.values()): the values in insertion order.
TypesValues(types) == [i \in 1..Len(types) |-> IndexEvent("type", types[i].value)]

\* The loop over children, lines 206-212, from child on.
RECURSIVE OtherChildren(_, _)
OtherChildren(h, child) ==
    IF child = NoSymbol THEN << >>
    ELSE (IF h[child].kind \in {"struct", "enum"} THEN << >> ELSE << IndexEvent("child", child) >>)
         \o OtherChildren(h, h[child].next)

\* Lines 198-215: the index() calls on the types and the other children,
\* then the statement that indexes the script block.
ChildIndexCalls(h, s) ==
    (IF h[s].children = NoSymbol THEN << >>
     ELSE TypesValues(h[s].types) \o OtherChildren(h, h[s].children))
    \o << IndexEvent("block", NoSymbol) >>

\* index() of the children of s: each call is logged on s, and a child that
\* is a struct, enum, state or function runs UCStructSymbol.index on its own
\* children (it has no extends clause in the trees modelled).
RECURSIVE IndexCalls(_, _, _)
IndexCalls(h, calls, i) ==
    IF i > Len(calls) THEN h
    ELSE LET c == calls[i].id
             inner == IF c # NoSymbol /\ h[c].kind \in StructKinds
                      THEN IndexCalls([h EXCEPT ![c].indexLog = @ \o ChildIndexCalls(h, c)],
                                      ChildIndexCalls(h, c), 1)
                      ELSE h
         IN  IndexCalls(inner, calls, i + 1)

\* UCStructSymbol.index: the extends clause
IndexExtends ==
    /\ callStack # << >>
    /\ top.pc \in {"extends", "extendsSet"}
    /\ IF top.pc = "extendsSet"
       THEN /\ sym' = [sym EXCEPT ![top.id].extendsRef = top.target,
                                  ![top.id].super = IF @ = NoSymbol THEN top.target ELSE @,
                                  ![top.id].indexLog = Append(@, IndexEvent("extends", top.target))]
            /\ callStack' = Continue("children")
       ELSE IF sym[top.id].extendsType = NoText
       THEN /\ callStack' = Continue("children")
            /\ UNCHANGED sym
       ELSE IF FindClass(sym, docClass, sym[top.id].extendsType) = NoSymbol
       THEN /\ callStack' = Continue("children")
            /\ sym' = [sym EXCEPT ![top.id].indexLog = Append(@, IndexEvent("extends", NoSymbol))]
       ELSE /\ Len(callStack) < MaxCallDepth
            /\ callStack' = Call("extendsSet", FindClass(sym, docClass, sym[top.id].extendsType))
            /\ UNCHANGED sym
    /\ UnchangedByIndex

\* UCStructSymbol.index: the types, the other children and the script block.
\* The members modelled (primitive-typed variables, enums, structs without an
\* extends clause) have no class to resolve: their index() calls return
\* without a call of their own on a class, and then this call returns.
IndexChildren ==
    /\ callStack # << >>
    /\ top.pc = "children"
    /\ callStack' = Return
    /\ sym' = IndexCalls([sym EXCEPT ![top.id].indexLog = @ \o ChildIndexCalls(sym, top.id)],
                         ChildIndexCalls(sym, top.id), 1)
    /\ UnchangedByIndex

IndexRun ==
    \/ IndexGuard
    \/ IndexWithin
    \/ IndexDependsOn
    \/ IndexExtends
    \/ IndexChildren

\* Headers of the class of document d.
ClassReferences == {NoText} \cup ClassTexts
IndexHeaders ==
    {[extendsType |-> e, withinType |-> w, dependsOnTypes |-> deps] :
        e \in ClassReferences, w \in ClassReferences, deps \in SeqsUpTo(ClassTexts, MaxDepends)}
IndexTrees == {ParseTree(header, << >>, assign) : header \in IndexHeaders, assign \in BOOLEAN}

FirstParse(d) ==
    /\ docClass[d] = NoSymbol
    /\ ParseDocument(d, IndexTrees)

NextIndex ==
    \/ \E d \in Docs : FirstParse(d)
    \/ \E d \in Docs : IndexDocument(d)
    \/ IndexRun

\* ---- lookups through the super link: two classes with members ----
LowerNames == {<<97>>, <<98>>, <<101>>, <<120>>, <<121>>}
LookupMembers ==
    {VarMember(<<120>>), VarMember(<<97>>), VarMember(<<98>>), EnumMember(<<69>>, <<(<<120>>)>>)}
LookupHeaders(d) ==
    {[extendsType |-> e, withinType |-> w, dependsOnTypes |-> << >>] :
        e \in {NoText} \cup (ClassTexts \ {ClassNameOf(d)}), w \in {NoText, ClassNameOf(d)}}
LookupTrees(d) ==
    {ParseTree(header, members, assign) :
        header \in LookupHeaders(d),
        members \in SeqsUpTo(LookupMembers, MaxMembers),
        assign \in BOOLEAN}

FirstParseWithMembers(d) ==
    /\ docClass[d] = NoSymbol
    /\ ParseDocument(d, LookupTrees(d))

NextLookup ==
    \/ \E d \in Docs : FirstParseWithMembers(d)
    \/ \E d \in Docs : IndexDocument(d)
    \/ IndexRun

\* ---- re-parsing: class A, with or without a struct S, and class B extends A ----
TypeIds == {<<115>>}
ReparseTrees(d) ==
    IF d = "A"
    THEN {ParseTree(NoHeader, members, assign) :
            members \in {<< >>, <<StructMember(<<83>>)>>}, assign \in BOOLEAN}
    ELSE {ParseTree([NoHeader EXCEPT !.extendsType = ClassNameOf("A")], << >>, assign) :
            assign \in BOOLEAN}

\* The document is parsed, for the first time or again after an edit.
Reparse(d) == ParseDocument(d, ReparseTrees(d))

\* A type lookup from the class of a document, as the resolution of a type
\* reference in that class makes it; it answers and fills the caches.
QueryTypeSymbol ==
    /\ callStack = << >>
    /\ \E d \in Docs, id \in TypeIds :
         /\ docClass[d] # NoSymbol
         /\ sym' = findTypeSymbol(sym, docClass[d], id, TRUE, LookupFuel(sym)).h
         /\ sym' # sym
    /\ UnchangedByIndex
    /\ UNCHANGED callStack

NextReparse ==
    \/ \E d \in Docs : Reparse(d)
    \/ \E d \in Docs : IndexDocument(d)
    \/ IndexRun
    \/ QueryTypeSymbol

(***************************************************************************)
(* Expressions: index() resolves the references of an expression in a      *)
(* context, analyze() reports what stayed unresolved or is illegal.        *)
(***************************************************************************)
NoExpr == [kind |-> "none"]

\* The predefined type symbol a type-cast name maps to; it is no symbol of
\* any document.
NativeName == 0 - 10
NameText == <<110, 97, 109, 101>>

\* TypeCastMap.get(id)
TypeCastMapGet(id) == IF id = NameText THEN NativeName ELSE NoSymbol

isStructSymbol(h, s) == s > 0 /\ h[s].kind \in StructKinds
isPropertySymbol(h, s) == s > 0 /\ h[s].kind \in {"property", "param"}
isMethodSymbol(h, s) == s > 0 /\ h[s].kind = "method"
isConst(h, s) == "const" \in h[s].modifiers
isOperator(h, s) == "operator" \in h[s].specifiers
isPreOperator(h, s) == "preoperator" \in h[s].specifiers
isPostOperator(h, s) == "postoperator" \in h[s].specifiers

\* getEnumMember(id): the member that setEnumMember entered last under this name.
getEnumMember(h, id) ==
    LET members == {s \in 1..Len(h) : h[s].tabled /\ ToLower(getName(h, s)) = id}
    IN  IF members = {} THEN NoSymbol
        ELSE CHOOSE s \in members : \A o \in members : o <= s

\* The reference of a declared type: a struct or enum of the ObjectsTable;
\* a primitive type (NoText) refers to no symbol of the graph.
TypeReference(table, typeName) ==
    IF typeName = NoText THEN NoSymbol ELSE MapGet(table, ToLower(typeName))

\* UCMemberExpression.index: the symbol the reference holds when index()
\* returns (NoSymbol: never set; Diverges: index() does not return).
MemberIndex(h, classes, table, id, context, hasArguments) ==
    LET cast == IF hasArguments THEN TypeCastMapGet(id) ELSE NoSymbol
        class == FindClass(h, classes, id)
        type == IF ~hasArguments \/ cast # NoSymbol THEN NoSymbol
                ELSE IF class # NoSymbol THEN class ELSE MapGet(table, id)
        found == findSuperSymbol(h, context, id, LookupFuel(h))
        symbol == IF found # NoSymbol THEN found ELSE getEnumMember(h, id)
    IN  IF type # NoSymbol THEN type
        ELSE IF symbol # NoSymbol THEN symbol
        ELSE cast

\* UCPropertyAccessExpression.getContextType: the type of what the left
\* side resolves to.  The functions modelled declare no return type.
getContextType(h, table, symbol) ==
    IF symbol = NoSymbol THEN NoSymbol
    ELSE IF isPropertySymbol(h, symbol) THEN TypeReference(table, h[symbol].typeName)
    ELSE IF isMethodSymbol(h, symbol) THEN NoSymbol
    ELSE symbol

\* UCElementAccessExpression.getMemberSymbol
ElementMemberSymbol(h, table, symbol) ==
    IF symbol = NoSymbol THEN NoSymbol
    ELSE IF isPropertySymbol(h, symbol) THEN TypeReference(table, h[symbol].typeName)
    ELSE IF isMethodSymbol(h, symbol) THEN NoSymbol
    ELSE symbol

\* The test of the operator kind, by the kind of the operator expression.
HasOperatorKind(h, s, kind) ==
    IF kind = "binary" THEN isOperator(h, s)
    ELSE IF kind = "pre" THEN isPreOperator(h, s)
    ELSE isPostOperator(h, s)

\* The inner loop of findOperatorSymbol: the first child from this one on
\* that has the id, is a method and carries the operator kind.
RECURSIVE OperatorChild(_, _, _, _)
OperatorChild(h, child, id, kind) ==
    IF child = NoSymbol THEN NoSymbol
    ELSE IF /\ ToLower(getName(h, child)) = id
            /\ isMethodSymbol(h, child)
            /\ HasOperatorKind(h, child, kind)
    THEN child
    ELSE OperatorChild(h, h[child].next, id, kind)

\* Mutant of OperatorScope: the search starts in the context itself.
OperatorScope_Context(h, context) == context

\* The scope findOperatorSymbol starts in: the outer of a method, and the
\* outer of that when it is a state.
OperatorScope(h, context) ==
    LET start == IF isMethodSymbol(h, context) THEN h[context].outer ELSE context
    IN  IF start > 0 /\ h[start].kind = "state" THEN h[start].outer ELSE start

\* The outer loop of findOperatorSymbol, findPreOperatorSymbol and
\* findPostOperatorSymbol: up the super links while the scope is a struct.
RECURSIVE OperatorWalk(_, _, _, _, _)
OperatorWalk(h, s, id, kind, fuel) ==
    IF fuel = 0 THEN Diverges
    ELSE IF ~isStructSymbol(h, s) THEN NoSymbol
    ELSE IF OperatorChild(h, h[s].children, id, kind) # NoSymbol
    THEN OperatorChild(h, h[s].children, id, kind)
    ELSE OperatorWalk(h, h[s].super, id, kind, fuel - 1)

findOperatorSymbol(h, id, context, kind) ==
    OperatorWalk(h, OperatorScope(h, context), id, kind, LookupFuel(h))

\* An expression statement: a bare identifier ("member"), a call of one
\* ("call"), a property access leftId.id ("access"), an operator expression
\* over literals ("binary", "pre", "post") or an assignment id = literal,
\* with element: id[0] = literal ("assign"); an assignment leftId.id = literal
\* ("accessAssign"), an assignment leftId = id ("assignFrom"), a call
\* leftId(id) ("argument"), and the statement id=literal of a
\* defaultproperties block ("default").
Expression(kind, id, leftId, element) ==
    [kind |-> kind, id |-> id, leftId |-> leftId, element |-> element]

\* An expression above a member expression: its class, and the field of it
\* that holds the expression below.
Outer(class, slot) == [class |-> class, slot |-> slot]

\* this.outer and this.outer.outer of the member expressions of a statement,
\* as the visitors of the walker assign them: of the member id ("member")
\* and of the member leftId ("left").
OutersOf(e, part) ==
    LET assignment == Outer("UCAssignmentOperatorExpression", IF e.kind = "assignFrom" /\ part = "member"
                                                                 THEN "right" ELSE "left")
        access == Outer("UCPropertyAccessExpression", part)
        call == Outer("UCCallExpression", IF e.kind = "argument" /\ part = "member"
                                             THEN "argument" ELSE "expression")
    IN  IF e.kind \in {"call", "argument"} THEN << call >>
        ELSE IF e.kind = "access" THEN << access >>
        ELSE IF e.kind = "accessAssign" THEN << access, assignment >>
        ELSE IF e.kind = "assignFrom" THEN << assignment >>
        ELSE IF e.kind = "assign"
        THEN (IF e.element THEN << Outer("UCElementAccessExpression", "expression") >> ELSE << >>)
             \o << assignment >>
        ELSE IF e.kind = "default" THEN << Outer("UCDefaultAssignmentExpression", "left") >>
        ELSE << >>

\* instanceof UCAssignmentExpression: the class and its subclass.
AssignmentClasses == {"UCAssignmentExpression", "UCAssignmentOperatorExpression"}

\* this.outer instanceof UCCallExpression
HasArguments(outers) == outers # << >> /\ outers[1].class = "UCCallExpression"

\* UCMemberExpression.index, lines 634-638: the value assigned to ref.inAssignment.
InAssignment(outers) ==
    \/ /\ Len(outers) >= 1
       /\ outers[1].class \in AssignmentClasses
       /\ outers[1].slot = "left"
    \/ /\ Len(outers) >= 2
       /\ outers[1].class = "UCPropertyAccessExpression"
       /\ outers[1].slot = "member"
       /\ outers[2].class \in AssignmentClasses
       /\ outers[2].slot = "left"

\* The inAssignment flag of the reference when UCMemberExpression.index
\* returns: assigned only where the symbol comes from the scope or the enum
\* members (lines 628-639), undefined, which is falsy, after the return of
\* line 623 and where nothing is found.
MemberInAssignment(h, classes, table, id, context, outers) ==
    LET returned == /\ HasArguments(outers)
                    /\ TypeCastMapGet(id) = NoSymbol
                    /\ \/ FindClass(h, classes, id) # NoSymbol
                       \/ MapGet(table, id) # NoSymbol
        found == findSuperSymbol(h, context, id, LookupFuel(h))
        symbol == IF found # NoSymbol THEN found ELSE getEnumMember(h, id)
    IN  ~returned /\ symbol # NoSymbol /\ InAssignment(outers)

\* index() of the expression in the context: the references it leaves.
IndexedExpression(h, classes, table, e, context) ==
    LET hasLeft == e.kind \in {"access", "accessAssign", "assignFrom", "argument"}
        isAccess == e.kind \in {"access", "accessAssign"}
        leftRef == IF hasLeft
                   THEN MemberIndex(h, classes, table, e.leftId, context,
                                    HasArguments(OutersOf(e, "left")))
                   ELSE NoSymbol
        memberContext == IF isAccess THEN getContextType(h, table, leftRef) ELSE context
        indexed == ~isAccess \/ isStructSymbol(h, memberContext)
        ref == IF e.kind \in {"binary", "pre", "post"}
               THEN findOperatorSymbol(h, e.id, context, e.kind)
               ELSE IF ~indexed THEN NoSymbol
               ELSE MemberIndex(h, classes, table, e.id, memberContext,
                                HasArguments(OutersOf(e, "member")))
    IN  [kind |-> e.kind, id |-> e.id, leftId |-> e.leftId, element |-> e.element,
         context |-> context, doc |-> h[context].doc,
         ref |-> ref, leftRef |-> leftRef, analyzed |-> FALSE,
         inAssignment |-> /\ e.kind \notin {"binary", "pre", "post"}
                          /\ indexed
                          /\ MemberInAssignment(h, classes, table, e.id, memberContext,
                                                OutersOf(e, "member")),
         leftInAssignment |-> /\ hasLeft
                              /\ MemberInAssignment(h, classes, table, e.leftId, context,
                                                    OutersOf(e, "left"))]

MSG_UNRECOGNIZED_FIELD == "UnrecognizedFieldNode"
MSG_INACCESSIBLE == "is an inaccessible type!"
MSG_INVALID_OPERATOR == "Invalid operator"
MSG_STATIC_ARRAY == "Cannot assign to a static array variable."
MSG_CONSTANT == "Cannot assign to a constant variable."
MSG_NOT_VARIABLE == "Cannot assign to expression, because it is not a variable."
MSG_NO_DEFAULT == "cannot be assigned a default value!"

\* A diagnostic node of document.nodes and the reference or expression
\* whose range it reports.
Node(text, at) == [text |-> text, at |-> at]

\* Mutant of MemberDiags: a reference without a symbol is not reported.
MemberDiags_Silent(h, ref, context, at) ==
    IF context # NoSymbol /\ ~isStructSymbol(h, context)
    THEN << Node(MSG_INACCESSIBLE, at) >>
    ELSE << >>

\* UCMemberExpression.analyze; context is NoSymbol when undefined.
MemberDiags(h, ref, context, at) ==
    IF context # NoSymbol /\ ~isStructSymbol(h, context)
    THEN << Node(MSG_INACCESSIBLE, at) >>
    ELSE IF ref = NoSymbol THEN << Node(MSG_UNRECOGNIZED_FIELD, at) >>
    ELSE << >>

\* Mutant of AssignmentDiags: only the fixed array is refused.
AssignmentDiags_ArrayOnly(h, table, e) ==
    LET letSymbol == IF e.element THEN ElementMemberSymbol(h, table, e.ref) ELSE e.ref
    IN  IF isPropertySymbol(h, letSymbol) /\ h[letSymbol].fixedArray
        THEN << Node(MSG_STATIC_ARRAY, "letSymbol") >> ELSE << >>

\* UCAssignmentExpression.analyze after super.analyze: the legality of the
\* left side.  The type kind of a left side without a symbol is not Object.
AssignmentDiags(h, table, e) ==
    LET letSymbol == IF e.element THEN ElementMemberSymbol(h, table, e.ref) ELSE e.ref
    IN  IF letSymbol = NoSymbol THEN << Node(MSG_NOT_VARIABLE, "left") >>
        ELSE IF isPropertySymbol(h, letSymbol)
        THEN (IF h[letSymbol].fixedArray THEN << Node(MSG_STATIC_ARRAY, "letSymbol") >> ELSE << >>)
             \o (IF isConst(h, letSymbol) THEN << Node(MSG_CONSTANT, "letSymbol") >> ELSE << >>)
        ELSE IF isMethodSymbol(h, letSymbol) THEN << >>
        ELSE IF e.element THEN << >>
        ELSE << Node(MSG_NOT_VARIABLE, "left") >>

\* analyze() of the indexed expression: the nodes it pushes.
ExpressionDiags(h, table, e) ==
    IF e.kind \in {"member", "call"} THEN MemberDiags(h, e.ref, e.context, "member")
    ELSE IF e.kind = "access"
    THEN MemberDiags(h, e.leftRef, e.context, "left")
         \o MemberDiags(h, e.ref, getContextType(h, table, e.leftRef), "member")
    ELSE IF e.kind \in {"binary", "pre", "post"}
    THEN (IF e.ref = NoSymbol THEN << Node(MSG_INVALID_OPERATOR, "operator") >> ELSE << >>)
    ELSE IF e.kind = "argument"
    THEN MemberDiags(h, e.leftRef, e.context, "left") \o MemberDiags(h, e.ref, e.context, "member")
    ELSE IF e.kind = "accessAssign"
    THEN MemberDiags(h, e.leftRef, e.context, "left")
         \o MemberDiags(h, e.ref, getContextType(h, table, e.leftRef), "member")
         \o AssignmentDiags(h, table, e)
    ELSE IF e.kind = "assignFrom"
    THEN MemberDiags(h, e.leftRef, e.context, "left") \o MemberDiags(h, e.ref, e.context, "member")
         \o AssignmentDiags(h, table, [e EXCEPT !.ref = e.leftRef])
    ELSE IF e.kind = "default"
    THEN (IF e.ref # NoSymbol /\ ~isPropertySymbol(h, e.ref)
          THEN << Node(MSG_NO_DEFAULT, "left") >> ELSE << >>)
         \o MemberDiags(h, e.ref, e.context, "member")
    ELSE MemberDiags(h, e.ref, e.context, "member") \o AssignmentDiags(h, table, e)

\* The method symbol of the graph as visitMethod reads it.
MethodRecord(h, m) ==
    [type |-> MethodTypeOf(h[m].specifiers),
     specifiers |-> h[m].specifiers,
     precedence |-> h[m].precedence,
     hasParams |-> h[m].hasParams,
     params |-> [k \in 1..Len(h[m].params) |->
                    ParamSymbol("optional" \in h[h[m].params[k]].modifiers)],
     requiredParamsCount |-> h[m].requiredParamsCount]

\* The methods the analyzer visits in the document: those of its class.
MethodsOf(h, d, classes) ==
    {m \in 1..Len(h) : /\ h[m].kind = "method"
                       /\ h[m].doc = d
                       /\ \/ h[m].outer = classes[d]
                          \/ h[m].outer # NoSymbol /\ h[h[m].outer].outer = classes[d]}

\* Mutant of AnalyzedSymbol: the analyzer clears the parameters it has counted.
AnalyzedSymbol_DropsParams(h, s) ==
    [h[s] EXCEPT !.requiredParamsCount = RequiredParamsCount(MethodRecord(h, s)),
                 !.params = << >>]

\* visitMethod, line 213: what the analyzer leaves of the method symbol.
AnalyzedSymbol(h, s) ==
    [h[s] EXCEPT !.requiredParamsCount = RequiredParamsCount(MethodRecord(h, s))]

\* The diagnostics of visitMethod over the methods from symbol s on.
RECURSIVE MethodDiags(_, _, _)
MethodDiags(h, methods, s) ==
    IF s > Len(h) THEN << >>
    ELSE (IF s \in methods
          THEN ParamDiags(MethodRecord(h, s)) \o OperatorDiags(MethodRecord(h, s))
          ELSE << >>)
         \o MethodDiags(h, methods, s + 1)

\* ---- two classes with functions, states and variables ----
UpperX == <<88>>
UpperF == <<70>>
UpperT == <<84>>
UpperE == <<69>>
UpperS == <<83>>
UpperY == <<89>>
Plus == <<43>>
UpperName == <<78, 97, 109, 101>>
LowerX == <<120>>
LowerF == <<102>>
LowerY == <<121>>
LowerT == <<116>>
LowerA == <<97>>

Function(name, params) == FunctionMember(name, {"function"}, Undefined, params)
Operator(keywords) == FunctionMember(Plus, keywords, 16, << >>)

SuperMemberLists ==
    { << >>,
      << VarMember(UpperX) >>,
      << EnumMember(UpperE, << UpperX >>) >>,
      << VarMember(UpperName) >>,
      << Operator({"final", "operator"}) >>,
      << Operator({"final", "preoperator"}) >>,
      << StructMember(UpperT) >>,
      << Function(UpperF, << >>) >> }

MemberLists ==
    { << Function(UpperF, << >>) >>,
      << Function(UpperF, << ParamNode(UpperX, {}) >>) >>,
      << Function(UpperF, << ParamNode(UpperF, {}) >>) >>,
      << Function(UpperF, << ParamNode(UpperX, {"optional"}), ParamNode(UpperY, {}) >>) >>,
      << VarMember(UpperX), Function(UpperF, << >>) >>,
      << TypedVarMember(UpperX, {"const"}, FALSE, NoText), Function(UpperF, << >>) >>,
      << TypedVarMember(UpperX, {}, TRUE, NoText), Function(UpperF, << >>) >>,
      << TypedVarMember(UpperX, {"const"}, TRUE, NoText), Function(UpperF, << >>) >>,
      << StructMember(UpperT), TypedVarMember(UpperX, {}, FALSE, UpperT),
         Function(UpperF, << >>) >>,
      << EnumMember(UpperE, << UpperX >>), Function(UpperF, << >>) >>,
      << StateMember(UpperS, << Function(UpperF, << ParamNode(UpperX, {}) >>) >>) >>,
      << VarMember(UpperX), StateMember(UpperS, << Function(UpperF, << >>) >>) >>,
      << VarMember(UpperX),
         StateMember(UpperS, << Function(UpperX, << >>), Function(UpperF, << >>) >>) >>,
      << Operator({"final", "operator"}), Function(UpperF, << >>) >>,
      << Operator({"final", "postoperator"}), Operator({"final", "operator"}),
         Function(UpperF, << >>) >>,
      << Operator({"function"}), Function(UpperF, << >>) >>,
      << StateMember(UpperS, << Operator({"final", "operator"}), Function(UpperF, << >>) >>) >>,
      << VarMember(UpperName), Function(UpperF, << >>) >>,
      << Function(ClassNameOf("A"), << >>), Function(UpperF, << >>) >>,
      << VarMember(UpperX), Function(UpperF, << >>), DefaultsMember >> }

\* Class A is the superclass; class B has the functions and extends A or
\* nothing.  The class symbols are as their constructor leaves them.
ExprTrees(d) ==
    IF d = "A"
    THEN {ParseTree(NoHeader, members, FALSE) : members \in SuperMemberLists}
    ELSE {ParseTree([NoHeader EXCEPT !.extendsType = e], members, FALSE) :
            e \in {NoText, ClassNameOf("A")}, members \in MemberLists}

ParseWithFunctions(d) ==
    /\ docClass[d] = NoSymbol
    /\ ParseDocument(d, ExprTrees(d))

ExprIds == {LowerX, LowerF, LowerY}
CalleeIds == {NameText, LowerA, LowerT, LowerF, LowerY}
ExprShapes ==
    {Expression("member", id, NoText, FALSE) : id \in ExprIds}
    \cup {Expression("call", id, NoText, FALSE) : id \in CalleeIds}
    \cup {Expression("access", id, leftId, FALSE) : id \in {LowerX, LowerY}, leftId \in {LowerX, LowerY}}
    \cup {Expression(kind, Plus, NoText, FALSE) : kind \in {"binary", "pre", "post"}}
    \cup {Expression("assign", id, NoText, element) : id \in ExprIds \cup {LowerA}, element \in BOOLEAN}
    \cup {Expression("accessAssign", id, LowerX, FALSE) : id \in {LowerT, LowerY}}
    \cup {Expression("assignFrom", id, LowerX, FALSE) : id \in {LowerX, LowerY}}
    \cup {Expression("argument", id, LowerF, FALSE) : id \in {LowerX, LowerA}}
\* The statements of a defaultproperties block.
DefaultShapes == {Expression("default", id, NoText, FALSE) : id \in ExprIds}

\* The contexts of the statements of a class: the class, its states and
\* the functions of both.
ContextsOf(h, class) ==
    {s \in 1..Len(h) : /\ h[s].kind \in {"class", "state", "method", "defaultproperties"}
                       /\ \/ s = class
                          \/ h[s].outer = class
                          \/ h[s].outer # NoSymbol /\ h[h[s].outer].outer = class}

\* UCStructSymbol.index, line 217, and the index() of the children with a
\* block: a statement of the class being indexed is indexed in its context.
IndexExpression ==
    /\ callStack # << >>
    /\ top.pc = "children"
    /\ expr = NoExpr
    /\ \E context \in ContextsOf(sym, top.id) :
         \E e \in IF sym[context].kind = "defaultproperties" THEN DefaultShapes ELSE ExprShapes :
            expr' = IndexedExpression(sym, docClass, objectsTable, e, context)
    /\ UNCHANGED <<sym, scopes, docClass, objectsTable, declCount, callStack, stale, located,
                   parseCount, escaped, analyzed, visits>>
    /\ UNCHANGED varsNames
    /\ UNCHANGED varsAnalyze

\* new DocumentAnalyzer(document, diagnostics) over an indexed document:
\* visitMethod on every method of the class and analyze() on the statement
\* that was indexed.
Analyze(d) ==
    /\ callStack = << >>
    /\ docClass[d] # NoSymbol
    /\ sym[docClass[d]].indexCount > 0
    /\ d \notin analyzed
    /\ analyzed' = analyzed \cup {d}
    /\ LET methods == MethodsOf(sym, d, docClass) IN
         /\ sym' = [s \in 1..Len(sym) |->
                      IF s \in methods /\ sym[s].hasParams THEN AnalyzedSymbol(sym, s) ELSE sym[s]]
         /\ diagnostics' = diagnostics \o MethodDiags(sym, methods, 1)
    /\ IF expr # NoExpr /\ expr.doc = d /\ ~expr.analyzed
       THEN /\ nodes' = nodes \o ExpressionDiags(sym, objectsTable, expr)
            /\ expr' = [expr EXCEPT !.analyzed = TRUE]
       ELSE UNCHANGED <<nodes, expr>>
    /\ UNCHANGED <<scopes, docClass, objectsTable, declCount, callStack, stale, located, parseCount, escaped,
                   visits>>
    /\ UNCHANGED varsNames
    /\ UNCHANGED <<phase, method, property>>

\* The documents of the workspace are indexed once all of them are parsed.
IndexParsed(d) ==
    /\ \A o \in Docs : docClass[o] # NoSymbol
    /\ IndexDocument(d)

NextExpr ==
    \/ \E d \in Docs : ParseWithFunctions(d)
    \/ \E d \in Docs : IndexParsed(d)
    \/ IndexRun
    \/ IndexExpression
    \/ \E d \in Docs : Analyze(d)

(***************************************************************************)
(* Specifications.                                                         *)
(***************************************************************************)
NextNames == \E text \in Texts : IdFromCtx(text)

(***************************************************************************)
(* Positions: the symbol at a source position.                             *)
(***************************************************************************)
MaxPosMembers == 2
Positions == 0..(3 * MaxPosMembers + 2)

\* intersectsWith(range, position) and intersectsWithRange(position, range)
InRange(position, range) == range.lo <= position /\ position <= range.hi

\* UCSymbol.getSymbolAtPos, line 68: inRange && contained || this, which
\* JavaScript groups as (inRange && contained) || this.
OrThis(inRange, contained, this) ==
    IF inRange /\ contained # NoSymbol THEN contained ELSE this

\* getSymbolAtPos, getContainedSymbolAtPos and getChildSymbolAtPos call each
\* other; op selects the function, s is the symbol it is called on (for
\* "children": the child the loop has come to).  The header clauses of a
\* struct or class and the script block of a function are absent here, so
\* getContainedSymbolAtPos goes straight to the children.
RECURSIVE SymbolAtPos(_, _, _, _)
SymbolAtPos(h, op, s, position) ==
    IF op = "children"
    THEN \* UCStructSymbol.getChildSymbolAtPos: the loop, at child s
         IF s = NoSymbol THEN NoSymbol
         ELSE LET innerSymbol == SymbolAtPos(h, "symbol", s, position)
              IN  IF innerSymbol # NoSymbol THEN innerSymbol
                  ELSE SymbolAtPos(h, "children", h[s].next, position)
    ELSE IF op = "contained"
    THEN IF h[s].kind \in StructKinds
         THEN SymbolAtPos(h, "children", h[s].children, position)
         ELSE NoSymbol
    ELSE IF h[s].kind = "class"
    THEN \* UCClassSymbol.getSymbolAtPos
         IF InRange(position, h[s].range)
         THEN IF InRange(position, ClassIdRange) THEN s
              ELSE SymbolAtPos(h, "contained", s, position)
         ELSE SymbolAtPos(h, "children", h[s].children, position)
    ELSE \* UCSymbol.getSymbolAtPos
         OrThis(InRange(position, h[s].range),
                IF InRange(position, h[s].range)
                THEN SymbolAtPos(h, "contained", s, position) ELSE NoSymbol,
                s)

getSymbolAtPos(h, s, position) == SymbolAtPos(h, "symbol", s, position)
getChildSymbolAtPos(h, s, position) == SymbolAtPos(h, "children", h[s].children, position)

\* The member nodes of a class body as the source lays them out: the i-th
\* member from offset 3i to 3i+2, the member of a struct inside its braces.
PosNodes ==
    {VarMember(<<120>>), VarMember(<<121>>), StructMember(<<83>>),
     [StructMember(<<83>>) EXCEPT !.body = <<VarMember(<<120>>)>>]}
Placed(node, i) ==
    [node EXCEPT !.range = IF node.kind = "struct" THEN Range(3 * i, 3 * i + 2)
                           ELSE Range(3 * i, 3 * i + 1),
                 !.body = [k \in 1..Len(node.body) |->
                              [node.body[k] EXCEPT !.range = Range(3 * i + 1, 3 * i + 1)]]]
PosTrees ==
    {ParseTree(NoHeader, [i \in 1..Len(members) |-> Placed(members[i], i)], TRUE) :
        members \in SeqsUpTo(PosNodes, MaxPosMembers)}

PosParse(d) ==
    /\ docClass[d] = NoSymbol
    /\ ParseDocument(d, PosTrees)

\* A request for the symbol at a position, made on a symbol of the tree.
LocateSymbol ==
    /\ \E s \in 2..Len(sym), position \in Positions :
         located' = [op |-> "getSymbolAtPos", from |-> s, position |-> position,
                     symbol |-> getSymbolAtPos(sym, s, position)]
    /\ UNCHANGED <<sym, scopes, docClass, objectsTable, declCount, callStack, stale,
                   parseCount, escaped, expr, analyzed, visits>>
    /\ UNCHANGED varsNames
    /\ UNCHANGED varsAnalyze

\* The search of a struct's children for the symbol at a position.
LocateChild ==
    /\ \E s \in 2..Len(sym), position \in Positions :
         /\ sym[s].kind \in StructKinds
         /\ located' = [op |-> "getChildSymbolAtPos", from |-> s, position |-> position,
                        symbol |-> getChildSymbolAtPos(sym, s, position)]
    /\ UNCHANGED <<sym, scopes, docClass, objectsTable, declCount, callStack, stale,
                   parseCount, escaped, expr, analyzed, visits>>
    /\ UNCHANGED varsNames
    /\ UNCHANGED varsAnalyze

NextPos ==
    \/ \E d \in {"A"} : PosParse(d)
    \/ LocateSymbol
    \/ LocateChild

InitAll ==
    /\ namesTable = << >>
    /\ nameCount = 0
    /\ idOf = << >>
    /\ phase = "decl"
    /\ method = NoMethod
    /\ property = NoProperty
    /\ diagnostics = << >>
    /\ nodes = << >>
    /\ sym = <<UCSymbol("package", PackageName, "")>>
    /\ scopes = <<PackageId>>
    /\ docClass = [d \in Docs |-> NoSymbol]
    /\ objectsTable = << >>
    /\ declCount = 0
    /\ callStack = << >>
    /\ stale = {}
    /\ parseCount = 0
    /\ escaped = "none"
    /\ expr = [kind |-> "none"]
    /\ analyzed = {}
    /\ visits = << >>
    /\ located = NoQuery

SpecNames == InitAll /\ [][NextNames]_vars

SpecAnalyze == InitAll /\ [][NextAnalyze]_vars

SpecBuild == InitAll /\ [][NextBuild]_vars

Spec == InitAll /\ [][NextIndex]_vars

SpecLive == Spec /\ WF_vars(IndexRun)

SpecLookup == InitAll /\ [][NextLookup]_vars

SpecReparse == InitAll /\ [][NextReparse]_vars

SpecExpr == InitAll /\ [][NextExpr]_vars

SpecPos == InitAll /\ [][NextPos]_vars

(***************************************************************************)
(* Claims.                                                                 *)
(***************************************************************************)
\* The positions (0-based parameter indexes) of the trailing-optional diagnostics.
OptionalDiagsAt ==
    {diagnostics[i].at.index : i \in {j \in 1..Len(diagnostics) : diagnostics[j].text = MSG_OPTIONAL}}

\* The method analysed was declared with the parameters (optional a, b).
OptionalThenRequired ==
    /\ phase = "analyzed"
    /\ IsMethod(method)
    /\ method.hasParams
    /\ method.params = << ParamSymbol(TRUE), ParamSymbol(FALSE) >>

\* C6 as stated: analysing a method with the parameters (optional a, b)
\* reports the trailing-optional violation for exactly b and leaves
\* requiredParamsCount = 1.
C6_RequiredParamsCountIsOne ==
    OptionalThenRequired =>
        /\ CountDiags(MSG_OPTIONAL) = 1
        /\ OptionalDiagsAt = {1}
        /\ method.requiredParamsCount = 1

\* C6 amended: analysing a method with the parameters (optional a, b)
\* reports the trailing-optional violation for exactly b and leaves
\* requiredParamsCount = 0, the index of the first optional parameter.
C6_RequiredParamsCountIsFirstOptional ==
    OptionalThenRequired =>
        /\ CountDiags(MSG_OPTIONAL) = 1
        /\ OptionalDiagsAt = {1}
        /\ method.requiredParamsCount = 0

C6_Witness ==
    /\ OptionalThenRequired
    /\ method.requiredParamsCount = 0
    /\ CountDiags(MSG_OPTIONAL) = 1

\* A fixed-array property with a dimension that evaluates to a size was analysed.
SizedArrayAnalyzed ==
    /\ phase = "analyzed"
    /\ IsProperty(property)
    /\ isFixedArray(property)
    /\ property.arrayDimRange
    /\ property.arrayDim # Undefined

\* C7: visitProperty on a fixed array with a declared size emits exactly
\* one 'Illegal array size, must be between 2-2048' diagnostic when the
\* size is 0, 1 or greater than 2048, and none when 2 <= size <= 2048.
C7_SizeRangeDiagnostic ==
    SizedArrayAnalyzed =>
        CountDiags(MSG_SIZE_RANGE) =
            (IF property.arrayDim <= 1 \/ property.arrayDim > MaxArrayDim THEN 1 ELSE 0)

\* The method analysed is the binary operator symbol of visitFunctionDecl.
BinaryOperatorAnalyzed ==
    /\ phase = "analyzed"
    /\ IsMethod(method)
    /\ method.type = "UCBinaryOperatorSymbol"

\* C8: analysing a binary operator method emits exactly one 'Operator must
\* be declared as final' diagnostic when the method lacks the Final
\* specifier and none when it has it, whatever its other specifiers,
\* precedence and parameters.
C8_OperatorMustBeFinal ==
    BinaryOperatorAnalyzed =>
        CountDiags(MSG_FINAL) = (IF "final" \in method.specifiers THEN 0 ELSE 1)

C8_Witness ==
    /\ BinaryOperatorAnalyzed
    /\ "final" \notin method.specifiers
    /\ "static" \in method.specifiers
    /\ Len(method.params) = 3
    /\ CountDiags(MSG_FINAL) = 1

\* C10: identifiers whose texts are equal after lower-casing carry the
\* same Name object (same identity, hash and text), whatever toName calls
\* came before; and interning the two texts now, one after the other,
\* yields one object.
C10_SameNameObject ==
    /\ \A a \in DOMAIN idOf, b \in DOMAIN idOf :
          ToLower(a) = ToLower(b) => idOf[a] = idOf[b]
    /\ \A a \in Texts, b \in Texts :
          ToLower(a) = ToLower(b) =>
              LET r1 == idFromCtx(a, namesTable, nameCount)
                  r2 == idFromCtx(b, r1.table, r1.count)
              IN r1.name = r2.name

C10_Witness ==
    /\ nameCount >= 2
    /\ \E a \in DOMAIN idOf, b \in DOMAIN idOf :
          /\ a # b
          /\ ToLower(a) = ToLower(b)
          /\ idOf[a].id = idOf[b].id
          /\ idOf[a].id = nameCount

(***************************************************************************)
(* Claims about the tree builder (SpecBuild).                              *)
(***************************************************************************)
Symbols == 1..Len(sym)
EnumSymbols == {e \in Symbols : sym[e].kind = "enum"}
\* The member symbols visitEnumDecl made for this enum.  Symbols are numbered
\* in construction order, so the i-th member node (from 0) is symbol e+1+i
\* and the synthesized member is the one constructed last.
EnumMembersOf(e) == {m \in Symbols : sym[m].kind = "enummember" /\ sym[m].outer = e}
DeclaredCount(e) == Cardinality(EnumMembersOf(e)) - 1

\* C2: after visitEnumDecl of an enum with n member nodes the i-th member
\* (from 0, in declaration order) has value i, a member named EnumCount is
\* constructed after them with value n and the enum as outer, and no two
\* members of the enum share a value.
C2_EnumValues ==
    \A e \in EnumSymbols :
        LET n == DeclaredCount(e)
        IN  /\ EnumMembersOf(e) = (e + 1)..(e + 1 + n)
            /\ \A i \in 0..(n - 1) : sym[e + 1 + i].value = i
            /\ sym[e + 1 + n].name = NAME_ENUMCOUNT
            /\ sym[e + 1 + n].value = n
            /\ sym[e + 1 + n].outer = e
            /\ \A m1, m2 \in EnumMembersOf(e) : sym[m1].value = sym[m2].value => m1 = m2

C2_Witness == \E e \in EnumSymbols : DeclaredCount(e) >= 2

\* A method declared in a state declared in the document's class.
FunctionsInStates ==
    {m \in Symbols : /\ sym[m].kind = "method"
                     /\ sym[m].outer # NoSymbol
                     /\ sym[sym[m].outer].kind = "state"
                     /\ sym[sym[m].outer].outer # NoSymbol
                     /\ sym[sym[sym[m].outer].outer].kind = "class"}
StateOf(m) == sym[m].outer
ClassOf(m) == sym[sym[m].outer].outer

\* C9 as stated: the qualified name of a function in a state in a class is
\* Class.State.Function, without the package.
C9_PackageOmitted ==
    \A m \in FunctionsInStates :
        getQualifiedName(sym, m)
            = sym[ClassOf(m)].name \o Dot \o sym[StateOf(m)].name \o Dot \o sym[m].name

\* C9 amended: the qualified name of a function in a state in a class is
\* Package.Class.State.Function; the class was declared into the package the
\* walker starts with, and the package's name leads.
C9_PackageLeads ==
    \A m \in FunctionsInStates :
        /\ sym[ClassOf(m)].outer = PackageId
        /\ getQualifiedName(sym, m)
              = PackageName \o Dot \o sym[ClassOf(m)].name \o Dot
                    \o sym[StateOf(m)].name \o Dot \o sym[m].name

C9_Witness == FunctionsInStates # {}

(***************************************************************************)
(* Claims about indexing (Spec, SpecLive).                                 *)
(***************************************************************************)
ClassSymbols == {c \in Symbols : sym[c].kind = "class"}
OnCallStack(c) == \E k \in 1..Len(callStack) : callStack[k].id = c

\* C4: index() on a document class symbol does its indexing work at most
\* once, and a call made after that work has begun, a re-entrant one
\* included, returns at once and changes nothing but the call stack.
C4_IndexWorkAtMostOnce ==
    [][ /\ \A c \in 1..Len(sym') : sym'[c].kind = "class" => sym'[c].indexCount <= 1
        /\ (callStack # << >> /\ top.pc = "start" /\ sym[top.id].indexCount >= 1)
             => /\ sym' = sym
                /\ docClass' = docClass
                /\ objectsTable' = objectsTable
                /\ callStack' = Return ]_vars

\* A re-entrant call is about to run: the class called is one whose own
\* index() is still in progress further down the stack.
C4_Witness ==
    /\ Len(callStack) >= 2
    /\ top.pc = "start"
    /\ sym[top.id].indexCount = 1
    /\ \E k \in 1..(Len(callStack) - 1) : callStack[k].id = top.id

IndexedExtending(b, a) ==
    /\ b \in ClassSymbols /\ a \in ClassSymbols
    /\ sym[b].indexCount = 1
    /\ ~OnCallStack(b)
    /\ sym[b].extendsType # NoText
    /\ a = FindClass(sym, docClass, sym[b].extendsType)
    /\ a <= sym[b].indexedAt

\* The first child of the list from this one on that carries the name.
RECURSIVE MemberNamed(_, _)
MemberNamed(child, id) ==
    IF child = NoSymbol THEN NoSymbol
    ELSE IF ToLower(sym[child].name) = id THEN child
    ELSE MemberNamed(sym[child].next, id)

\* The member of that name of the class or, failing that, of its ancestors.
RECURSIVE InheritedMember(_, _, _)
InheritedMember(s, id, fuel) ==
    IF s = NoSymbol \/ fuel = 0 THEN NoSymbol
    ELSE IF MemberNamed(sym[s].children, id) # NoSymbol THEN MemberNamed(sym[s].children, id)
    ELSE InheritedMember(sym[s].super, id, fuel - 1)

\* C1 as stated: after indexing, the super of a class B that extends A is A,
\* and for every lower-case name x that no member of B carries,
\* B.findSuperSymbol(x) is A's (or an ancestor's) member named x, or
\* undefined when there is none.
C1_SuperLookupFindsMemberOfA ==
    \A b, a \in ClassSymbols :
        IndexedExtending(b, a) =>
            /\ sym[b].super = a
            /\ \A x \in LowerNames :
                  MemberNamed(sym[b].children, x) = NoSymbol =>
                      findSuperSymbol(sym, b, x, LookupFuel(sym))
                          = InheritedMember(a, x, LookupFuel(sym))

\* C1 amended: when B has no within clause, after its indexing work
\* B.super is A, and for every lower-case name x other than B's own name
\* that B.findSymbol does not find (no child of B and no member of an enum
\* of B carries it), B.findSuperSymbol(x) is what A.findSuperSymbol(x) is:
\* A itself for A's name, else what A.findSymbol(x) finds.
C1_SuperLookupDefersToSuper ==
    \A b, a \in ClassSymbols :
        (IndexedExtending(b, a) /\ sym[b].withinType = NoText) =>
            /\ sym[b].super = a
            /\ \A x \in LowerNames :
                  (x # ToLower(sym[b].name) /\ findSymbol(sym, b, x) = NoSymbol) =>
                      /\ findSuperSymbol(sym, b, x, LookupFuel(sym))
                            = findSuperSymbol(sym, a, x, LookupFuel(sym))
                      /\ x = ToLower(sym[a].name)
                            => findSuperSymbol(sym, b, x, LookupFuel(sym)) = a
                      /\ (x # ToLower(sym[a].name) /\ findSymbol(sym, a, x) # NoSymbol)
                            => findSuperSymbol(sym, b, x, LookupFuel(sym)) = findSymbol(sym, a, x)

\* B extends another class A, is indexed, and a lookup in B of a name B
\* does not declare returns a variable declared in A.
C1_Witness ==
    \E b, a \in ClassSymbols : \E x \in LowerNames :
        /\ IndexedExtending(b, a) /\ sym[b].withinType = NoText /\ a # b
        /\ x # ToLower(sym[b].name) /\ findSymbol(sym, b, x) = NoSymbol
        /\ findSuperSymbol(sym, b, x, LookupFuel(sym)) \in Symbols
        /\ sym[findSuperSymbol(sym, b, x, LookupFuel(sym))].kind = "property"
        /\ sym[findSuperSymbol(sym, b, x, LookupFuel(sym))].outer = a

\* C3: once a document has been re-parsed, no query made through the class
\* of a document (its super link, a type lookup with its cache, an
\* ObjectsTable entry) returns a symbol of a discarded tree.
C3_NoStaleSymbolReturned ==
    /\ \A d \in Docs :
          docClass[d] # NoSymbol =>
              /\ sym[docClass[d]].super \notin stale
              /\ \A id \in TypeIds :
                    findTypeSymbol(sym, docClass[d], id, TRUE, LookupFuel(sym)).symbol \notin stale
    /\ \A k \in 1..Len(objectsTable) : objectsTable[k].value \notin stale

\* C11: document.class is the symbol of the first class declaration visited;
\* every later class declaration adds exactly one SyntaxErrorNode to
\* document.nodes, returns undefined, and leaves document.class, the symbols
\* and the scope stack unchanged.
C11_OnlyFirstClassDeclared ==
    [][ /\ docClass[WalkDoc] # NoSymbol => docClass' = docClass
        /\ (visitClassDecl /\ docClass[WalkDoc] = NoSymbol)
             => /\ docClass'[WalkDoc] = Len(sym) + 1
                /\ sym'[Len(sym) + 1].kind = "class"
                /\ \A c \in 1..Len(sym) : sym[c].kind # "class"
        /\ (visitClassDecl /\ docClass[WalkDoc] # NoSymbol)
             => /\ nodes' = Append(nodes, [text |-> MSG_CLASS_IN_CLASS])
                /\ visitClassDeclResult(sym, docClass, WalkDoc) = NoSymbol
                /\ sym' = sym
                /\ scopes' = scopes
                /\ objectsTable' = objectsTable ]_vars

\* Three class declarations were visited: the first is document.class and
\* each of the other two left one syntax error.
C11_Witness ==
    /\ docClass[WalkDoc] # NoSymbol
    /\ Len(nodes) = 2
    /\ \A k \in 1..Len(nodes) : nodes[k].text = MSG_CLASS_IN_CLASS

\* C12: an exception raised while a function is built (a parameter, a body
\* member, a statement) or in the statement block of an enclosing construct
\* does not leave the handler of that construct: the symbol stays declared,
\* the scope stack is back to what it was before the construct, and the walk
\* goes on with the siblings.
C12_ExceptionContained ==
    [][ (raiseInMember /\ sym[scope].kind \in {"method", "state"})
          => /\ escaped' = "none"
             /\ scopes' = SubSeq(scopes, 1, Len(scopes) - 1)
             /\ sym' = sym ]_vars

\* The binary operator analysed declares two parameters and a precedence
\* within 0..MaxPrecedence.
WellFormedBinaryOperator ==
    /\ method.hasParams
    /\ Len(method.params) = 2
    /\ method.precedenceText # Undefined
    /\ method.precedenceText >= 0
    /\ method.precedenceText <= MaxPrecedence

\* C14: a binary operator method that declares two parameters and a
\* precedence p with 0 <= p <= 255 (p = 0 and p = 255 included) gets
\* neither the 'total of 2 parameters' diagnostic nor a precedence
\* diagnostic; every other binary operator gets the diagnostic of what it
\* lacks: the parameter diagnostic exactly when it has not two parameters,
\* one precedence diagnostic exactly when its precedence is absent or
\* outside 0..255.
C14_OperatorAcceptedIffWellFormed ==
    BinaryOperatorAnalyzed =>
        /\ CountDiags(MSG_TWO_PARAMS) =
              (IF method.hasParams /\ Len(method.params) = 2 THEN 0 ELSE 1)
        /\ CountDiags(MSG_NO_PREC) + CountDiags(MSG_PREC_RANGE) =
              (IF /\ method.precedenceText # Undefined
                  /\ method.precedenceText >= 0
                  /\ method.precedenceText <= MaxPrecedence
               THEN 0 ELSE 1)
        /\ WellFormedBinaryOperator =>
              CountDiags(MSG_TWO_PARAMS) + CountDiags(MSG_NO_PREC) + CountDiags(MSG_PREC_RANGE) = 0

\* The method analysed has an optional parameter followed by several
\* parameters that are not optional.
OptionalThenSeveralRequired ==
    /\ phase = "analyzed"
    /\ IsMethod(method)
    /\ method.hasParams
    /\ LET first == FirstOptional(method.params, 0) IN
         /\ first < Len(method.params)
         /\ Cardinality({i \in (first + 2)..Len(method.params) : ~isOptional(method.params[i])}) >= 2

\* Every parameter after the first optional one is optional.
AllTrailingOptional ==
    /\ phase = "analyzed"
    /\ IsMethod(method)
    /\ method.hasParams
    /\ LET first == FirstOptional(method.params, 0) IN
         /\ first < Len(method.params)
         /\ \A i \in (first + 2)..Len(method.params) : isOptional(method.params[i])

\* The 0-based indexes of the parameters after the first optional one that
\* are not optional.
TrailingRequired ==
    LET first == FirstOptional(method.params, 0) IN
    {i - 1 : i \in {j \in (first + 2)..Len(method.params) : ~isOptional(method.params[j])}}

\* C15 as stated: with an optional parameter followed by several
\* non-optional ones the trailing-optional violation is reported once, for
\* the first non-optional parameter after the first optional one; with only
\* optional parameters after the first optional one it is not reported.
C15_OnlyFirstViolationReported ==
    /\ OptionalThenSeveralRequired =>
          /\ CountDiags(MSG_OPTIONAL) = 1
          /\ \A i \in OptionalDiagsAt : \A j \in TrailingRequired : i <= j
    /\ AllTrailingOptional => CountDiags(MSG_OPTIONAL) = 0

\* C15 amended: the trailing-optional violation is reported once for every
\* non-optional parameter after the first optional one, each at its own
\* parameter; with only optional parameters after the first optional one it
\* is not reported.
C15_EveryViolationReported ==
    /\ OptionalThenSeveralRequired =>
          /\ CountDiags(MSG_OPTIONAL) = Cardinality(TrailingRequired)
          /\ OptionalDiagsAt = TrailingRequired
    /\ AllTrailingOptional => CountDiags(MSG_OPTIONAL) = 0

C15_Witness ==
    /\ OptionalThenSeveralRequired
    /\ method.params = << ParamSymbol(TRUE), ParamSymbol(FALSE), ParamSymbol(FALSE) >>
    /\ CountDiags(MSG_OPTIONAL) = 2
    /\ OptionalDiagsAt = {1, 2}

\* ---- expressions ----
\* No symbol, type-cast name or class has this name.
NamedNowhere(id) ==
    /\ \A s \in 1..Len(sym) : ToLower(getName(sym, s)) # id
    /\ TypeCastMapGet(id) = NoSymbol

\* The expression followed is a member expression, bare or the member of a
\* property access, whose name is declared nowhere.
UnresolvedMember ==
    /\ expr # NoExpr
    /\ expr.kind \in {"member", "access"}
    /\ NamedNowhere(expr.id)

\* The nodes of document.nodes that report the range of this part of the expression.
NodesAt(at) ==
    LET reports(n) == n.at = at IN SelectSeq(nodes, reports)

\* The left side of the property access followed resolves to a symbol that
\* is no struct.
LeftIsNoStruct ==
    /\ expr.kind = "access"
    /\ getContextType(sym, objectsTable, expr.leftRef) # NoSymbol
    /\ ~isStructSymbol(sym, getContextType(sym, objectsTable, expr.leftRef))

\* C13 as stated: indexing a member expression whose name resolves nowhere
\* returns, leaves the reference unset and adds no node; its analysis adds
\* exactly one unrecognized-field node, at the reference's own range.
C13_UnresolvedIsUnrecognizedField ==
    UnresolvedMember =>
        /\ expr.ref = NoSymbol
        /\ ~expr.analyzed => nodes = << >>
        /\ expr.analyzed => NodesAt("member") = << Node(MSG_UNRECOGNIZED_FIELD, "member") >>

\* C13 amended: indexing a member expression whose name resolves nowhere
\* returns, leaves the reference unset and adds no node; its analysis adds
\* exactly one node at the reference's own range: the 'inaccessible type'
\* error when the expression is the member of a property access whose left
\* side resolves to a symbol that is no struct, the unrecognized-field
\* node otherwise.
C13_UnresolvedIsReportedOnce ==
    UnresolvedMember =>
        /\ expr.ref = NoSymbol
        /\ ~expr.analyzed => nodes = << >>
        /\ expr.analyzed =>
              NodesAt("member") =
                << Node(IF LeftIsNoStruct THEN MSG_INACCESSIBLE ELSE MSG_UNRECOGNIZED_FIELD,
                        "member") >>

C13_Witness ==
    /\ UnresolvedMember
    /\ expr.analyzed
    /\ expr.kind = "member"
    /\ sym[expr.context].kind = "method"
    /\ nodes = << Node(MSG_UNRECOGNIZED_FIELD, "member") >>

\* An assignment was analysed; what its left side resolves to.
AssignmentAnalyzed == expr # NoExpr /\ expr.kind = "assign" /\ expr.analyzed
LeftSymbol ==
    IF expr.element THEN ElementMemberSymbol(sym, objectsTable, expr.ref) ELSE expr.ref
NodeTexts == {nodes[k].text : k \in 1..Len(nodes)}
LeftSideErrors == NodeTexts \cap {MSG_STATIC_ARRAY, MSG_CONSTANT, MSG_NOT_VARIABLE}

\* C16: the analysis of an assignment adds an error when the left side
\* resolves to a fixed-array property, to a const property, or to a symbol
\* that is neither a property nor a method and is not reached through an
\* element access; it adds no left-side error when the left side resolves
\* to a property that is neither const nor a fixed array.
C16_LeftSideLegality ==
    AssignmentAnalyzed =>
        /\ (isPropertySymbol(sym, LeftSymbol) /\ sym[LeftSymbol].fixedArray)
              => MSG_STATIC_ARRAY \in NodeTexts
        /\ (isPropertySymbol(sym, LeftSymbol) /\ "const" \in sym[LeftSymbol].modifiers)
              => MSG_CONSTANT \in NodeTexts
        /\ (/\ LeftSymbol # NoSymbol
            /\ ~isPropertySymbol(sym, LeftSymbol)
            /\ ~isMethodSymbol(sym, LeftSymbol)
            /\ ~expr.element)
              => MSG_NOT_VARIABLE \in NodeTexts
        /\ (/\ isPropertySymbol(sym, LeftSymbol)
            /\ ~sym[LeftSymbol].fixedArray
            /\ "const" \notin sym[LeftSymbol].modifiers)
              => LeftSideErrors = {}

C16_Witness ==
    /\ AssignmentAnalyzed
    /\ ~expr.element
    /\ isPropertySymbol(sym, LeftSymbol)
    /\ sym[LeftSymbol].fixedArray
    /\ "const" \in sym[LeftSymbol].modifiers
    /\ LeftSideErrors = {MSG_STATIC_ARRAY, MSG_CONSTANT}

\* Sequence a is the beginning of sequence b.
IsPrefix(a, b) == Len(a) <= Len(b) /\ SubSeq(b, 1, Len(a)) = a

\* C17: a step of the DocumentAnalyzer over an indexed document leaves
\* every symbol as it was but for the requiredParamsCount of methods
\* (children, next, outer, super, type, modifiers, specifiers and the rest
\* unchanged), creates no symbol, leaves the references of the expression
\* as index() resolved them, and only adds diagnostics.
C17_AnalyzerOnlyCountsParams ==
    [][ analyzed' # analyzed =>
          /\ Len(sym') = Len(sym)
          /\ \A s \in 1..Len(sym) :
                /\ [sym'[s] EXCEPT !.requiredParamsCount = sym[s].requiredParamsCount] = sym[s]
                /\ sym'[s] # sym[s] => sym[s].kind = "method"
          /\ docClass' = docClass
          /\ objectsTable' = objectsTable
          /\ expr # NoExpr =>
                [expr' EXCEPT !.analyzed = expr.analyzed] = expr
          /\ expr = NoExpr => expr' = NoExpr
          /\ IsPrefix(diagnostics, diagnostics')
          /\ IsPrefix(nodes, nodes') ]_vars

C17_Witness ==
    /\ analyzed = Docs
    /\ expr # NoExpr
    /\ expr.analyzed
    /\ expr.ref > 0
    /\ \E m \in 1..Len(sym) :
          /\ sym[m].kind = "method"
          /\ Len(sym[m].params) = 2
          /\ sym[m].requiredParamsCount = 0
    /\ CountDiags(MSG_OPTIONAL) = 1

\* The first direct child, from this one on, that has the name.
RECURSIVE ChildNamed(_, _, _)
ChildNamed(h, child, id) ==
    IF child = NoSymbol THEN NoSymbol
    ELSE IF ToLower(getName(h, child)) = id THEN child
    ELSE ChildNamed(h, h[child].next, id)

\* The first child with the name in the class or, failing that, in its
\* superclasses from nearest to farthest.
RECURSIVE ClassChainChild(_, _, _, _)
ClassChainChild(h, class, id, fuel) ==
    IF class = NoSymbol \/ fuel = 0 THEN NoSymbol
    ELSE IF ChildNamed(h, h[class].children, id) # NoSymbol
    THEN ChildNamed(h, h[class].children, id)
    ELSE ClassChainChild(h, h[class].super, id, fuel - 1)

\* The resolution order of the claim for an identifier in method m: the
\* children of m, of its enclosing state, of the class and its
\* superclasses, then the enum-member table.
OrderedResolution(h, m, id) ==
    LET outer == h[m].outer
        state == IF h[outer].kind = "state" THEN outer ELSE NoSymbol
        class == IF state # NoSymbol THEN h[state].outer ELSE outer
        inMethod == ChildNamed(h, h[m].children, id)
        inState == IF state = NoSymbol THEN NoSymbol ELSE ChildNamed(h, h[state].children, id)
        inClasses == ClassChainChild(h, class, id, LookupFuel(h))
    IN  IF inMethod # NoSymbol THEN inMethod
        ELSE IF inState # NoSymbol THEN inState
        ELSE IF inClasses # NoSymbol THEN inClasses
        ELSE getEnumMember(h, id)

\* C18: a bare identifier indexed in the scope of a method M of class C
\* resolves to the first match in the order: child of M, child of M's
\* enclosing state, child of C, child of C's superclasses nearest first,
\* and only then an entry of the enum-member table.
C18_ResolutionOrder ==
    (expr # NoExpr /\ expr.kind = "member" /\ sym[expr.context].kind = "method")
        => expr.ref = OrderedResolution(sym, expr.context, expr.id)

\* The type a callee id names: a type-cast name, else a class of the
\* Classes table, else a struct or enum of the Objects table.
CalleeType(id) ==
    IF TypeCastMapGet(id) # NoSymbol THEN TypeCastMapGet(id)
    ELSE IF FindClass(sym, docClass, id) # NoSymbol THEN FindClass(sym, docClass, id)
    ELSE MapGet(objectsTable, id)

\* C19: the callee of a call expression whose id names a type-cast name,
\* else a class, else a struct or enum refers to that type after
\* indexing, even when a member of that name is reachable from the
\* context; the member lookup decides only when the id names no type.
C19_CalleeTypeFirst ==
    (expr # NoExpr /\ expr.kind = "call") =>
        expr.ref = (IF CalleeType(expr.id) # NoSymbol THEN CalleeType(expr.id)
                    ELSE MemberIndex(sym, docClass, objectsTable, expr.id, expr.context, FALSE))

\* The class that encloses context x: x itself, the outer of a state or
\* function of the class, the outer of the state of a function of a state.
EnclosingClass(h, x) ==
    IF h[x].kind = "class" THEN x
    ELSE IF h[h[x].outer].kind = "state" THEN h[h[x].outer].outer
    ELSE h[x].outer

\* The methods declared directly in the class that have the id and carry
\* the operator kind of the expression.
OperatorsOf(h, class, id, kind) ==
    {m \in 1..Len(h) : /\ h[m].outer = class
                       /\ h[m].kind = "method"
                       /\ ToLower(getName(h, m)) = id
                       /\ IF kind = "binary" THEN "operator" \in h[m].specifiers
                          ELSE IF kind = "pre" THEN "preoperator" \in h[m].specifiers
                          ELSE "postoperator" \in h[m].specifiers}

\* The nearest class, from this one up the super links, that declares such
\* an operator.
RECURSIVE NearestWithOperator(_, _, _, _, _)
NearestWithOperator(h, class, id, kind, fuel) ==
    IF class = NoSymbol \/ fuel = 0 THEN NoSymbol
    ELSE IF OperatorsOf(h, class, id, kind) # {} THEN class
    ELSE NearestWithOperator(h, h[class].super, id, kind, fuel - 1)

OperatorExpression == expr # NoExpr /\ expr.kind \in {"binary", "pre", "post"}

\* C20: the operator reference of a binary, pre- or post-operator
\* expression indexed in context X is a method of the same name that
\* carries the matching operator kind and is declared in the nearest class,
\* from X's enclosing class up the super links, that declares one (so not
\* in the calling method nor in an enclosing state); it stays unset when no
\* class on the way declares one.
C20_OperatorFromEnclosingClass ==
    OperatorExpression =>
        LET nearest == NearestWithOperator(sym, EnclosingClass(sym, expr.context),
                                           expr.id, expr.kind, LookupFuel(sym))
        IN  IF nearest = NoSymbol THEN expr.ref = NoSymbol
            ELSE expr.ref \in OperatorsOf(sym, nearest, expr.id, expr.kind)

C20_Witness ==
    /\ OperatorExpression
    /\ expr.kind = "binary"
    /\ sym[expr.context].kind = "method"
    /\ sym[sym[expr.context].outer].kind = "state"
    /\ OperatorsOf(sym, sym[expr.context].outer, expr.id, expr.kind) # {}
    /\ OperatorsOf(sym, docClass["B"], expr.id, expr.kind) = {}
    /\ expr.ref > 0
    /\ sym[expr.ref].outer = docClass["A"]

\* ---- the order of index() ----
\* The structs whose index() has run to its end, and what was declared into them.
IndexedStructs ==
    {s \in 1..Len(sym) : /\ s \notin stale
                         /\ sym[s].indexLog # << >>
                         /\ sym[s].indexLog[Len(sym[s].indexLog)].step = "block"}
DeclaredInto(s) == {c \in 1..Len(sym) : sym[c].outer = s /\ sym[c].kind # "class"}
StepsAt(s, step) == {i \in 1..Len(sym[s].indexLog) : sym[s].indexLog[i].step = step}
CallsOn(s, c) == {i \in 1..Len(sym[s].indexLog) :
                    sym[s].indexLog[i].step \in {"type", "child"} /\ sym[s].indexLog[i].id = c}

\* C21: index() of a struct indexes the extends type first (super is set from
\* it only when still unset), then the nested types, then the remaining
\* children in the order they were declared, then the script block; each
\* child is indexed exactly once.
C21_IndexOrder ==
    \A s \in IndexedStructs :
        LET log == sym[s].indexLog IN
        /\ \A i \in StepsAt(s, "extends") : i = 1
        /\ StepsAt(s, "extends") # {} /\ sym[s].withinRef = NoSymbol => sym[s].super = sym[s].extendsRef
        /\ \A i \in StepsAt(s, "type"), j \in StepsAt(s, "child") : i < j
        /\ \A i, j \in StepsAt(s, "child") : i < j => log[i].id < log[j].id
        /\ StepsAt(s, "block") = {Len(log)}
        /\ \A c \in DeclaredInto(s) : Cardinality(CallsOn(s, c)) = 1

\* ---- assignment targets ----
MemberExpressionIndexed == expr # NoExpr /\ expr.kind \notin {"binary", "pre", "post"}
\* The member id is the left operand of an assignment, in code or in a
\* defaultproperties block, or the member part of a property access that is.
MemberIsTarget ==
    \/ expr.kind \in {"default", "accessAssign"}
    \/ expr.kind = "assign" /\ ~expr.element
\* The member leftId is the left operand of an assignment.
LeftIsTarget == expr.kind = "assignFrom"

\* C22: once a member expression is indexed and resolved, the inAssignment
\* flag of its reference is true exactly when the expression is the left
\* operand of an assignment ('=' in code or in a default-value block) or the
\* member part of a property access that is such a left operand.
C22_InAssignmentMarksTargets ==
    MemberExpressionIndexed =>
        /\ expr.ref # NoSymbol => (expr.inAssignment <=> MemberIsTarget)
        /\ expr.leftRef # NoSymbol => (expr.leftInAssignment <=> LeftIsTarget)

ConstSymbols == {c \in 1..Len(sym) : sym[c].kind = "const"}
RECURSIVE OnChain(_, _)
OnChain(child, c) ==
    IF child = NoSymbol THEN FALSE
    ELSE child = c \/ OnChain(sym[child].next, c)

\* C24: a const declared at any depth of the scope stack is a child of
\* document.class and of no other struct, its outer is document.class, and
\* the visit leaves the scope stack as it was.
C24_ConstInDocumentClass ==
    /\ [](\A c \in ConstSymbols :
            /\ sym[c].outer = docClass[WalkDoc]
            /\ \A s \in 1..Len(sym) :
                  OnChain(sym[s].children, c) <=> s = docClass[WalkDoc])
    /\ [][ (Len(sym') = Len(sym) + 1 /\ sym'[Len(sym')].kind = "const") => scopes' = scopes ]_vars

\* A const was declared while a function inside a state was the scope.
C24_Witness ==
    /\ Len(scopes) = 4
    /\ sym[scope].kind = "method"
    /\ sym[Len(sym)].kind = "const"
    /\ Len(sym) > scope

\* ---- super after the build ----
\* C25: no struct the tree builder creates has its super set; only index() sets it.
C25_SuperUnsetAfterBuild ==
    \A s \in 1..Len(sym) : sym[s].kind \in StructKinds => sym[s].super = NoSymbol

\* C25 as amended: the classes, structs, enums, states and functions are
\* built with super unset; a replication block is built with document.class
\* as its super, a default-value block and an object declaration with the
\* scope they are declared into.
C25_SuperSetOnlyForBlocks ==
    \A s \in 1..Len(sym) :
        /\ sym[s].kind \in StructKinds \ BlockKinds => sym[s].super = NoSymbol
        /\ sym[s].kind = "replication" => sym[s].super = docClass[WalkDoc]
        /\ sym[s].kind \in BlockKinds \ {"replication"} =>
              sym[s].super # NoSymbol /\ sym[s].super = sym[s].outer

\* A replication block and an object declaration in the default-value block
\* of the class have been built, and the walk is back in the class.
C25_Witness ==
    /\ \E s \in 1..Len(sym) : sym[s].kind = "replication"
    /\ \E s \in 1..Len(sym) :
          /\ sym[s].kind = "object"
          /\ sym[sym[s].outer].kind = "defaultproperties"
    /\ scopes = << PackageId, docClass[WalkDoc] >>

\* ---- the type-lookup cache ----
\* The heap with every struct's cache of resolved type names emptied.
ClearCaches(h) == [i \in 1..Len(h) |-> [h[i] EXCEPT !.cachedTypeResolves = << >>]]

\* C26: a type lookup from a document's class, deep or not, answers what the
\* same lookup answers when every cache is empty; a lookup that is not deep
\* answers the class itself, a type nested directly in it, or nothing.
C26_CacheTransparent ==
    \A d \in Docs, id \in TypeIds, deepSearch \in BOOLEAN :
        docClass[d] # NoSymbol =>
            LET c == docClass[d]
                answer == findTypeSymbol(sym, c, id, deepSearch, LookupFuel(sym)).symbol
            IN  /\ answer = findTypeSymbol(ClearCaches(sym), c, id, deepSearch,
                                           LookupFuel(sym)).symbol
                /\ ~deepSearch =>
                      \/ answer \in {NoSymbol, c}
                      \/ sym[answer].outer = c /\ OnChain(sym[c].children, answer)


\* ---- the first index call of a class ----
\* C27: when index() is entered on a class that has not been indexed yet, the
\* call goes past the guard and does the work (its within, depends-on and
\* extends clauses and its children follow); the guard returns only on a
\* class whose indexing an earlier call has begun.
C27_FirstIndexDoesTheWork ==
    [][ (/\ callStack # << >>
         /\ callStack[Len(callStack)].pc = "start"
         /\ callStack' # callStack
         /\ sym[callStack[Len(callStack)].id].indexCount = 0)
        => /\ sym'[callStack[Len(callStack)].id].indexCount = 1
           /\ Len(callStack') = Len(callStack)
           /\ callStack'[Len(callStack')].pc = "within" ]_vars


\* ---- the symbol at a position ----
\* The children of struct s whose range holds the position.
ChildrenAt(s, position) ==
    {c \in 1..Len(sym) : /\ OnChain(sym[s].children, c)
                         /\ InRange(position, sym[c].range)}

\* Symbol s is c or lies in c, following outer.
RECURSIVE Within(_, _)
Within(s, c) ==
    IF s = NoSymbol THEN FALSE ELSE IF s = c THEN TRUE ELSE Within(sym[s].outer, c)

\* C28: getSymbolAtPos of a symbol answers a symbol only for a position
\* inside the symbol's range; getChildSymbolAtPos of a struct answers a
\* child, or a symbol in it, only for a position inside that child's range,
\* and nothing for a position in no child.
C28_SymbolAtPosInRange ==
    /\ (located.op = "getSymbolAtPos" /\ sym[located.from].kind # "class")
          => (located.symbol # NoSymbol
                => InRange(located.position, sym[located.from].range))
    /\ located.op = "getChildSymbolAtPos"
          => IF ChildrenAt(located.from, located.position) = {}
             THEN located.symbol = NoSymbol
             ELSE located.symbol # NoSymbol
                    => \E c \in ChildrenAt(located.from, located.position) :
                          Within(located.symbol, c)


\* ---- the children of a struct ----
\* The children list from child c on, as far as the fuel goes.
RECURSIVE ChildrenFrom(_, _)
ChildrenFrom(c, fuel) ==
    IF c = NoSymbol \/ fuel = 0 THEN << >>
    ELSE << c >> \o ChildrenFrom(sym[c].next, fuel - 1)

Children(s) == ChildrenFrom(sym[s].children, Len(sym) + 1)
BuiltStructs == {s \in 1..Len(sym) : sym[s].kind \in StructKinds}
\* The nested types in a children list.
TypesIn(children) ==
    {children[i] : i \in {j \in 1..Len(children) : sym[children[j]].kind \in {"struct", "enum"}}}
TypeChildren(s) == TypesIn(Children(s))

\* The children list of struct s ends, holds every symbol whose owner the
\* struct became exactly once and the newest first, and holds only symbols
\* the struct owns; a symbol has one owner, so no symbol is on the lists of
\* two structs.
ChildrenListed(s) ==
    LET children == Children(s)
    IN  /\ Len(children) <= Len(sym)
        /\ \A i \in 1..Len(children) :
              /\ sym[children[i]].outer = s
              /\ i > 1 => children[i - 1] > children[i]
        /\ \A c \in 2..Len(sym) :
              sym[c].outer = s => \E i \in 1..Len(children) : children[i] = c

\* C29: the children list of every struct is as above, and its types table
\* holds exactly its struct and enum children, each under its lower-cased name.
C29_ChildrenAndTypes ==
    \A s \in BuiltStructs :
        /\ ChildrenListed(s)
        /\ {sym[s].types[k].value : k \in 1..Len(sym[s].types)} = TypeChildren(s)
        /\ \A k \in 1..Len(sym[s].types) :
              sym[s].types[k].key = ToLower(getName(sym, sym[s].types[k].value))

\* C29 as amended: the children list of every struct is as above, and its
\* types table maps the lower-cased name of each struct or enum child to the
\* most recently declared child of that name, and holds nothing else.
C29_ChildrenAndLatestTypes ==
    \A s \in BuiltStructs :
        LET nested == TypeChildren(s)
            types == sym[s].types
        IN  /\ ChildrenListed(s)
            /\ \A c \in nested : MapHas(types, ToLower(getName(sym, c)))
            /\ \A k \in 1..Len(types) :
                  /\ types[k].value \in nested
                  /\ types[k].key = ToLower(getName(sym, types[k].value))
                  /\ \A c \in nested :
                        ToLower(getName(sym, c)) = types[k].key => c <= types[k].value
                  /\ \A j \in 1..Len(types) : types[j].key = types[k].key => j = k

\* A struct with a child of its own has been declared into the class after
\* an older struct whose name differs from its name in case only.
C29_Witness ==
    \E s, t \in BuiltStructs :
        /\ sym[s].kind = "struct" /\ sym[t].kind = "struct"
        /\ s < t
        /\ sym[s].outer = sym[t].outer
        /\ ToLower(getName(sym, s)) = ToLower(getName(sym, t))
        /\ sym[t].children # NoSymbol


\* ---- termination of the lookups ----
\* C30: on every symbol graph that indexing leaves, cyclic super links
\* included, findSuperSymbol, the deep findTypeSymbol and getCompletionSymbols
\* return, for a name that is declared and for one that is declared nowhere.
C30_LookupsReturn ==
    \A d \in Docs :
        (docClass[d] # NoSymbol /\ callStack = << >>) =>
            /\ getCompletionSymbols(sym, docClass[d], LookupFuel(sym)).returns
            /\ \A id \in LowerNames :
                  /\ findSuperSymbol(sym, docClass[d], id, LookupFuel(sym)) # Diverges
                  /\ findTypeSymbol(sym, docClass[d], id, TRUE, LookupFuel(sym)).symbol # Diverges

====
